---- MODULE Spec2Model ----
(***************************************************************************)
(* Smart Witness ESP32-CAM firmware (smart_witness_single_file.ino):       *)
(* device lifecycle, BLE provisioning intake, Telegram command router,     *)
(* conversational editing session and the delivery wrapper, as one state   *)
(* machine.  Strings are TLA+ strings; Len, SubSeq and \o act on them.     *)
(***************************************************************************)
EXTENDS Integers, Sequences, FiniteSets, TLC

\* ------------------------------------------------------------------------
\* Program constants
\* ------------------------------------------------------------------------
BLE_SESSION_TIMEOUT == 300000
PIN_CONFIG_TIMEOUT == 120000
EDITING_TIMEOUT == 300000
POLL_INTERVAL == 2000
EDITING_POLL_INTERVAL == 1000
HEALTH_CHECK_INTERVAL == 30000
RECONNECT_INTERVAL == 30000
FIRST_BOOT_PROTECTION == 10000
MAX_INPUT_LEN == 100
MESSAGE_INTERVAL == 1500
MAX_TELEGRAM_RETRIES == 3
RETRY_DELAY == 500
PIN_LEN == 3
MIN_TOKEN_LEN == 40

\* sizeof() of the char arrays of SmartWitnessConfig
SZ_deviceName == 32
SZ_friendlyName == 64
SZ_devicePIN == 4
SZ_wifi == 64
SZ_telegramToken == 128
SZ_chatId == 32
SZ_alertMsg == 100

\* ------------------------------------------------------------------------
\* Bounds of the model
\* ------------------------------------------------------------------------
\* the clock advances in steps of TickStep and stops at MaxNow
TickStep == 160000
MaxNow == 480000
\* messages one getUpdates call returns
MaxBatch == 2

\* ------------------------------------------------------------------------
\* Strings
\* ------------------------------------------------------------------------
RECURSIVE Rep(_, _)
Rep(s, n) == IF n <= 0 THEN "" ELSE s \o Rep(s, n - 1)

\* strncpy(dst, src, n) into a zero-filled buffer whose byte n is never
\* written: dst reads back as the first n characters of src
strncpy(src, n) == IF Len(src) > n THEN SubSeq(src, 1, n) ELSE src

\* String::indexOf(ch): 0-based index of the first occurrence, -1 if none
indexOf(message, ch) ==
    IF \E i \in 1..Len(message) : SubSeq(message, i, i) = ch
    THEN (CHOOSE i \in 1..Len(message) :
             /\ SubSeq(message, i, i) = ch
             /\ \A j \in 1..(i - 1) : SubSeq(message, j, j) # ch) - 1
    ELSE -1

\* String::substring(from) and substring(from, to), 0-based, to exclusive
substringFrom(message, from) == SubSeq(message, from + 1, Len(message))
substring(message, from, to) == SubSeq(message, from + 1, to)

startsWith(message, prefix) ==
    /\ Len(message) >= Len(prefix)
    /\ SubSeq(message, 1, Len(prefix)) = prefix

extractCommand(message) ==
    LET commaIndex == indexOf(message, ",")
    IN  IF commaIndex = -1 THEN message ELSE substring(message, 0, commaIndex)

extractDeviceName(message) ==
    LET commaIndex == indexOf(message, ",")
    IN  IF commaIndex = -1 THEN "" ELSE substringFrom(message, commaIndex + 1)

\* ------------------------------------------------------------------------
\* SystemState and SmartWitnessConfig
\* ------------------------------------------------------------------------
SystemState == {"NEED_CONFIG", "BLE_CONFIG_PHASE", "PIN_CONFIG_PHASE",
                "GROUP_WAIT_PHASE", "NORMAL_OPERATION"}

\* the struct after memset(&config, 0, sizeof(config)) / static zero init
ZeroConfig ==
    [deviceName |-> "", friendlyName |-> "", devicePIN |-> "",
     wifiSSID |-> <<"", "", "">>, wifiPassword |-> <<"", "", "">>,
     telegramToken |-> "", personalChatId |-> "", familiarChatId |-> "",
     vecinalChatId |-> "", alertMsg |-> "",
     isConfigured |-> FALSE, pinConfigured |-> FALSE, configVersion |-> 0]

\* generateDefaultFriendlyName(): "CAM " + first two hex digits of the chip id
ChipName == "CAM 24"

\* generateDevicePIN(): String(random(100, 999)), always three digits
Pins == {"998"}

loadDefaultConfig(pin) ==
    [ZeroConfig EXCEPT
        !.deviceName = strncpy(ChipName, SZ_deviceName - 1),
        !.friendlyName = strncpy(ChipName, SZ_friendlyName - 1),
        !.devicePIN = strncpy(pin, SZ_devicePIN - 1),
        !.alertMsg = strncpy("Smart Witness Alert", SZ_alertMsg - 1),
        !.isConfigured = FALSE,
        !.pinConfigured = FALSE,
        !.configVersion = 1]

\* /config.json: absent, present but not parseable (opened for writing and
\* nothing written), or the document saveConfig wrote
NoFile == [kind |-> "none", doc |-> ZeroConfig]
CorruptFile == [kind |-> "corrupt", doc |-> ZeroConfig]
JsonFile(c) == [kind |-> "json", doc |-> c]

loadConfig(f, pin) ==
    IF f.kind # "json"
    THEN loadDefaultConfig(pin)
    ELSE [deviceName |-> strncpy(f.doc.deviceName, SZ_deviceName - 1),
          friendlyName |-> strncpy(f.doc.friendlyName, SZ_friendlyName - 1),
          devicePIN |-> strncpy(f.doc.devicePIN, SZ_devicePIN - 1),
          wifiSSID |-> [i \in 1..3 |-> strncpy(f.doc.wifiSSID[i], SZ_wifi - 1)],
          wifiPassword |-> [i \in 1..3 |-> strncpy(f.doc.wifiPassword[i], SZ_wifi - 1)],
          telegramToken |-> strncpy(f.doc.telegramToken, SZ_telegramToken - 1),
          personalChatId |-> strncpy(f.doc.personalChatId, SZ_chatId - 1),
          familiarChatId |-> strncpy(f.doc.familiarChatId, SZ_chatId - 1),
          vecinalChatId |-> strncpy(f.doc.vecinalChatId, SZ_chatId - 1),
          alertMsg |-> strncpy(f.doc.alertMsg, SZ_alertMsg - 1),
          isConfigured |-> f.doc.isConfigured,
          pinConfigured |-> f.doc.pinConfigured,
          configVersion |-> f.doc.configVersion]

\* outcomes of SPIFFS.open(..., "w") and serializeJson
FsOutcomes == {"ok", "open_fail", "write_fail"}

\* faulty variant (C9 tells it apart): accepts a token one character short
hasValidConfig_shortToken(c) ==
    LET v1 == IF Len(c.deviceName) = 0 THEN FALSE ELSE TRUE
        v2 == IF Len(c.devicePIN) # PIN_LEN THEN FALSE ELSE v1
        hasWiFi == \E i \in 1..3 : Len(c.wifiSSID[i]) > 0
        v3 == IF ~hasWiFi THEN FALSE ELSE v2
        v4 == IF Len(c.telegramToken) < MIN_TOKEN_LEN - 1 THEN FALSE ELSE v3
        v5 == IF Len(c.personalChatId) = 0 THEN FALSE ELSE v4
    IN  v5

\* variant that does not ask for the owner's chat
hasValidConfig_noOwner(c) ==
    LET v1 == IF Len(c.deviceName) = 0 THEN FALSE ELSE TRUE
        v2 == IF Len(c.devicePIN) # PIN_LEN THEN FALSE ELSE v1
        hasWiFi == \E i \in 1..3 : Len(c.wifiSSID[i]) > 0
        v3 == IF ~hasWiFi THEN FALSE ELSE v2
        v4 == IF Len(c.telegramToken) < MIN_TOKEN_LEN THEN FALSE ELSE v3
    IN  v4

hasValidConfig(c) ==
    LET v1 == IF Len(c.deviceName) = 0 THEN FALSE ELSE TRUE
        v2 == IF Len(c.devicePIN) # PIN_LEN THEN FALSE ELSE v1
        hasWiFi == \E i \in 1..3 : Len(c.wifiSSID[i]) > 0
        v3 == IF ~hasWiFi THEN FALSE ELSE v2
        v4 == IF Len(c.telegramToken) < MIN_TOKEN_LEN THEN FALSE ELSE v3
        v5 == IF Len(c.personalChatId) = 0 THEN FALSE ELSE v4
    IN  v5

\* ------------------------------------------------------------------------
\* State
\* ------------------------------------------------------------------------
VARIABLES
    config,               \* SmartWitnessConfig config (RAM)
    file,                 \* /config.json on SPIFFS
    currentState,         \* SystemState currentState
    pc,                   \* "setup": ESP.restart() was called, setup() runs next; "loop"
    lp,                   \* position in loop(): "switch", "poll" (inside the getUpdates for loop), "tail"
    inbox,                \* messages of the current getUpdates batch not handled yet
    updates,              \* messages the Telegram server still holds for the bot
    editingMode, editingField, editingChatID, pendingEditValue, editingStartTime,
    telegramStats,        \* TelegramStatistics
    lastMessageTime,
    bot,                  \* bot != nullptr
    wifi,                 \* WiFi.status() == WL_CONNECTED
    bleActive,            \* BLE stack initialised (initBLE) and not deinitialised
    deviceConnected,
    bleStatus,            \* value of the status characteristic
    bleConfigStartTime,
    isFirstUpdateAfterBoot, lastTelegramPoll, lastHealthCheck, lastReconnectAttempt,
    now,                  \* millis()
    out,                  \* messages handed to the transport by the last step
    events,               \* saves, status values, delays and restarts of the last step, in order
    stateSince,           \* clock value at which currentState took its present value
    sendLog,              \* the calls of safeSendMessage timed to the millisecond
    role,                 \* what the last call of getChatType on its own returned
    wait,                 \* the argument of delay() the rate limiter last computed
    route,                \* where handleTelegramMessage sent the last message
    bootPath,             \* values assigned to currentState by the last setup()
    valid,                \* what hasValidConfig() returned when it was last called
    lastIn,               \* the operation and input of the last step
    deployment            \* the surroundings of the device (one of Deployments)

vars == <<config, file, currentState, pc, lp, inbox, updates,
          editingMode, editingField, editingChatID, pendingEditValue, editingStartTime,
          telegramStats, lastMessageTime, bot, wifi,
          bleActive, deviceConnected, bleStatus, bleConfigStartTime,
          isFirstUpdateAfterBoot, lastTelegramPoll, lastHealthCheck, lastReconnectAttempt,
          now, out, events, stateSince, sendLog, role, wait, route, bootPath, valid, lastIn,
          deployment>>

\* the part of the state the handlers read and write, as one value
Cur ==
    [config |-> config, file |-> file, currentState |-> currentState, pc |-> pc,
     editingMode |-> editingMode, editingField |-> editingField,
     editingChatID |-> editingChatID, pendingEditValue |-> pendingEditValue,
     editingStartTime |-> editingStartTime,
     telegramStats |-> telegramStats, lastMessageTime |-> lastMessageTime,
     bot |-> bot, wifi |-> wifi, bleActive |-> bleActive, bleStatus |-> bleStatus,
     bleConfigStartTime |-> bleConfigStartTime,
     deviceConnected |-> deviceConnected,
     isFirstUpdateAfterBoot |-> isFirstUpdateAfterBoot,
     lastTelegramPoll |-> lastTelegramPoll, lastHealthCheck |-> lastHealthCheck,
     lastReconnectAttempt |-> lastReconnectAttempt, lp |-> lp, inbox |-> inbox,
     updates |-> updates,
     now |-> now, out |-> <<>>, events |-> <<>>, sendLog |-> sendLog, role |-> role,
     route |-> "none", bootPath |-> bootPath, valid |-> valid]

Commit(s) ==
    /\ config' = s.config
    /\ file' = s.file
    /\ currentState' = s.currentState
    /\ pc' = s.pc
    /\ editingMode' = s.editingMode
    /\ editingField' = s.editingField
    /\ editingChatID' = s.editingChatID
    /\ pendingEditValue' = s.pendingEditValue
    /\ editingStartTime' = s.editingStartTime
    /\ telegramStats' = s.telegramStats
    /\ lastMessageTime' = s.lastMessageTime
    /\ bot' = s.bot
    /\ wifi' = s.wifi
    /\ bleActive' = s.bleActive
    /\ bleStatus' = s.bleStatus
    /\ bleConfigStartTime' = s.bleConfigStartTime
    /\ deviceConnected' = s.deviceConnected
    /\ isFirstUpdateAfterBoot' = s.isFirstUpdateAfterBoot
    /\ lastTelegramPoll' = s.lastTelegramPoll
    /\ lastHealthCheck' = s.lastHealthCheck
    /\ lastReconnectAttempt' = s.lastReconnectAttempt
    /\ lp' = s.lp
    /\ inbox' = s.inbox
    /\ updates' = s.updates
    /\ now' = s.now
    /\ out' = s.out
    /\ events' = s.events
    /\ sendLog' = s.sendLog
    /\ role' = s.role
    /\ wait' = wait
    /\ stateSince' = IF pc = "setup" \/ s.currentState # currentState THEN s.now ELSE stateSince
    /\ route' = s.route
    /\ bootPath' = s.bootPath
    /\ valid' = s.valid

\* ESP.restart(): nothing after the call runs; setup() is next
restart(s) == [s EXCEPT !.pc = "setup", !.events = Append(@, "restart")]

\* delay(ms): the caller is blocked; the clock of the model moves in Tick
delay(s, ms) == [s EXCEPT !.events = Append(@, "delay " \o ToString(ms))]

\* millis() - since: every time stamp is taken from the clock after the
\* last reset, and the clock does not wrap within MaxNow, so the unsigned
\* difference is the plain one
elapsed(t, since) == t - since

\* an unsigned long (32 bits) as its two 16-bit halves
Half == 65536
U32(hi, lo) == [hi |-> hi, lo |-> lo]
NoWait == U32(0, 0)

\* a - b, a + b and a < b on unsigned long: the arithmetic is modulo 2^32
sub32(a, b) ==
    LET borrow == IF a.lo < b.lo THEN 1 ELSE 0
    IN  U32((a.hi - b.hi - borrow) % Half, (a.lo - b.lo) % Half)

add32(a, b) ==
    LET carry == IF a.lo + b.lo >= Half THEN 1 ELSE 0
    IN  U32((a.hi + b.hi + carry) % Half, (a.lo + b.lo) % Half)

lt32(a, b) == a.hi < b.hi \/ (a.hi = b.hi /\ a.lo < b.lo)

\* ------------------------------------------------------------------------
\* Config store, statistics, delivery
\* ------------------------------------------------------------------------
saveConfig(s, fs) ==
    LET s1 == [s EXCEPT !.events = Append(@, "saveConfig")]
    IN  CASE fs = "ok" -> [s1 EXCEPT !.file = JsonFile(s.config)]
          [] fs = "open_fail" -> s1
          [] OTHER -> [s1 EXCEPT !.file = CorruptFile]

ZeroStats ==
    [totalMessagesSent |-> 0, totalFailedSends |-> 0, lastSuccessfulSend |-> 0,
     lastErrorTime |-> 0, lastError |-> "", pollCount |-> 0, commandsProcessed |-> 0]

initializeTelegramStats(s) == [s EXCEPT !.telegramStats = ZeroStats]

\* variant that leaves the candidate value in place
resetEditingState_keepsCandidate(s) ==
    [s EXCEPT !.editingMode = FALSE, !.editingField = "", !.editingChatID = "",
              !.editingStartTime = 0]

resetEditingState(s) ==
    [s EXCEPT !.editingMode = FALSE, !.editingField = "", !.editingChatID = "",
              !.pendingEditValue = "", !.editingStartTime = 0]

\* One delivery: message is the text (kind and the values put into it),
\* keyboard the inline keyboard ("" for none), ok whether one of the
\* MAX_TELEGRAM_RETRIES transport attempts succeeded.  The clock is read
\* once per handler; the time a delivery blocks is a later Tick.
\* variant that counts consecutive failures: a delivery clears the count
safeSendMessage_clearsFailures(s, chat_id, message, keyboard, ok) ==
    IF ~s.bot
    THEN s
    ELSE LET sent == [to |-> chat_id, text |-> message, kb |-> keyboard, ok |-> ok]
         IN  IF ok
             THEN [s EXCEPT !.out = Append(@, sent),
                            !.lastMessageTime = s.now,
                            !.telegramStats.totalMessagesSent = @ + 1,
                            !.telegramStats.totalFailedSends = 0,
                            !.telegramStats.lastSuccessfulSend = s.now]
             ELSE [s EXCEPT !.out = Append(@, sent),
                            !.telegramStats.totalFailedSends = @ + 1,
                            !.telegramStats.lastError = "Message send failure to " \o chat_id,
                            !.telegramStats.lastErrorTime = s.now]

\* variant that treats a failed delivery as fatal
safeSendMessage_fatal(s, chat_id, message, keyboard, ok) ==
    IF ~s.bot
    THEN s
    ELSE LET sent == [to |-> chat_id, text |-> message, kb |-> keyboard, ok |-> ok]
         IN  IF ok
             THEN [s EXCEPT !.out = Append(@, sent),
                            !.lastMessageTime = s.now,
                            !.telegramStats.totalMessagesSent = @ + 1,
                            !.telegramStats.lastSuccessfulSend = s.now]
             ELSE restart([s EXCEPT !.out = Append(@, sent),
                                    !.telegramStats.totalFailedSends = @ + 1,
                                    !.telegramStats.lastError = "Message send failure to " \o chat_id,
                                    !.telegramStats.lastErrorTime = s.now])

safeSendMessage(s, chat_id, message, keyboard, ok) ==
    IF ~s.bot
    THEN s
    ELSE LET sent == [to |-> chat_id, text |-> message, kb |-> keyboard, ok |-> ok]
         IN  IF ok
             THEN [s EXCEPT !.out = Append(@, sent),
                            !.lastMessageTime = s.now,
                            !.telegramStats.totalMessagesSent = @ + 1,
                            !.telegramStats.lastSuccessfulSend = s.now]
             ELSE [s EXCEPT !.out = Append(@, sent),
                            !.telegramStats.totalFailedSends = @ + 1,
                            !.telegramStats.lastError = "Message send failure to " \o chat_id,
                            !.telegramStats.lastErrorTime = s.now]

\* ------------------------------------------------------------------------
\* safeSendMessage to the millisecond.  tr[k] is the result of the k-th call
\* of the transport, lat the time one call takes, lag the time between the
\* two reads of millis() in the rate limiter.
\* ------------------------------------------------------------------------
\* the rate limiter: millis() is read for the comparison and again for the
\* subtraction, which is unsigned.  When the second read is past the
\* interval the difference wraps, delay() blocks for weeks and the task
\* watchdog (panic mode) resets the device.
rateLimit(s, lag) ==
    LET d1 == elapsed(s.now, s.lastMessageTime)
        d2 == d1 + lag
    IN  IF d1 < MESSAGE_INTERVAL
        THEN IF d2 > MESSAGE_INTERVAL
             THEN restart([s EXCEPT !.events = Append(@, "delay wrapped")])
             ELSE delay([s EXCEPT !.now = s.now + lag + (MESSAGE_INTERVAL - d2)],
                        MESSAGE_INTERVAL - d2)
        ELSE s

\* the argument of delay() in the rate limit of safeSendMessage, on unsigned
\* long: last is lastMessageTime, first the millis() read in the
\* condition, second the millis() read in the subtraction; no delay is a
\* wait of 0
rateLimitDelay(last, first, second) ==
    IF lt32(sub32(first, last), U32(0, MESSAGE_INTERVAL))
    THEN sub32(U32(0, MESSAGE_INTERVAL), sub32(second, last))
    ELSE NoWait

\* variant of the retry loop that waits the same time before every retry
RECURSIVE transportLoop_constantDelay(_, _, _)
transportLoop_constantDelay(r, tr, lat) ==
    IF r.retries < MAX_TELEGRAM_RETRIES /\ ~r.success
    THEN LET s1 == IF r.retries > 0
                   THEN delay([r.s EXCEPT !.now = @ + RETRY_DELAY], RETRY_DELAY)
                   ELSE r.s
             call == [at |-> s1.now, ok |-> tr[r.retries + 1]]
         IN  transportLoop_constantDelay([s |-> [s1 EXCEPT !.now = @ + lat],
                                          retries |-> r.retries + 1,
                                          success |-> call.ok,
                                          attempts |-> Append(r.attempts, call)], tr, lat)
    ELSE r

\* variant of the retry loop that keeps calling the transport after a success;
\* r is [s, retries, success, attempts]
RECURSIVE transportLoop_allRetries(_, _, _)
transportLoop_allRetries(r, tr, lat) ==
    IF r.retries < MAX_TELEGRAM_RETRIES
    THEN LET s1 == IF r.retries > 0
                   THEN delay([r.s EXCEPT !.now = @ + RETRY_DELAY * r.retries],
                              RETRY_DELAY * r.retries)
                   ELSE r.s
             call == [at |-> s1.now, ok |-> tr[r.retries + 1]]
         IN  transportLoop_allRetries([s |-> [s1 EXCEPT !.now = @ + lat],
                                       retries |-> r.retries + 1,
                                       success |-> call.ok,
                                       attempts |-> Append(r.attempts, call)], tr, lat)
    ELSE r

\* the retry loop
RECURSIVE transportLoop(_, _, _)
transportLoop(r, tr, lat) ==
    IF r.retries < MAX_TELEGRAM_RETRIES /\ ~r.success
    THEN LET s1 == IF r.retries > 0
                   THEN delay([r.s EXCEPT !.now = @ + RETRY_DELAY * r.retries],
                              RETRY_DELAY * r.retries)
                   ELSE r.s
             call == [at |-> s1.now, ok |-> tr[r.retries + 1]]
         IN  transportLoop([s |-> [s1 EXCEPT !.now = @ + lat],
                            retries |-> r.retries + 1,
                            success |-> call.ok,
                            attempts |-> Append(r.attempts, call)], tr, lat)
    ELSE r

Call(chat_id, called, attempts, returned, ret) ==
    [to |-> chat_id, called |-> called, attempts |-> attempts, returned |-> returned,
     ret |-> ret]

safeSendMessageTimed(s, chat_id, message, keyboard, tr, lat, lag) ==
    IF ~s.bot
    THEN [s EXCEPT !.sendLog = Append(@, Call(chat_id, s.now, <<>>, s.now, FALSE))]
    ELSE LET s1 == rateLimit(s, lag)
             r == transportLoop([s |-> s1, retries |-> 0, success |-> FALSE,
                                 attempts |-> <<>>], tr, lat)
             s2 == r.s
             sent == [to |-> chat_id, text |-> message, kb |-> keyboard, ok |-> r.success]
             s3 == [s2 EXCEPT !.out = Append(@, sent),
                              !.sendLog = Append(@, Call(chat_id, s.now, r.attempts, s2.now,
                                                         r.success))]
         IN  IF s1.pc = "setup"
             THEN s1
             ELSE IF r.success
             THEN [s3 EXCEPT !.lastMessageTime = s2.now,
                             !.telegramStats.totalMessagesSent = @ + 1,
                             !.telegramStats.lastSuccessfulSend = s2.now]
             ELSE [s3 EXCEPT !.telegramStats.totalFailedSends = @ + 1,
                             !.telegramStats.lastError = "Message send failure to " \o chat_id,
                             !.telegramStats.lastErrorTime = s2.now]

\* ------------------------------------------------------------------------
\* Access control and menus
\* ------------------------------------------------------------------------
\* variant that takes an identifier for an endpoint it begins with
getChatType_prefix(c, chat_id) ==
    IF startsWith(chat_id, c.personalChatId) THEN "personal"
    ELSE IF startsWith(chat_id, c.familiarChatId) THEN "familiar"
    ELSE IF startsWith(chat_id, c.vecinalChatId) THEN "vecinal"
    ELSE "unknown"

getChatType(c, chat_id) ==
    IF chat_id = c.personalChatId THEN "personal"
    ELSE IF chat_id = c.familiarChatId THEN "familiar"
    ELSE IF chat_id = c.vecinalChatId THEN "vecinal"
    ELSE "unknown"

getCurrentChatId(c) == c.personalChatId

getCurrentConfigValue(c, field) ==
    CASE field = "edit_name" -> c.friendlyName
      [] field = "edit_ssid1" -> c.wifiSSID[1]
      [] field = "edit_ssid2" -> c.wifiSSID[2]
      [] field = "edit_ssid3" -> c.wifiSSID[3]
      [] field = "edit_telegram" -> substring(c.telegramToken, 0, 10) \o "..."
      [] field = "edit_alert" -> c.alertMsg
      [] field = "edit_familiar" -> c.familiarChatId
      [] field = "edit_vecinal" -> c.vecinalChatId
      [] OTHER -> "Unknown field"

getFieldName(field) ==
    CASE field = "edit_name" -> "Device Name"
      [] field = "edit_ssid1" -> "WiFi Network 1"
      [] field = "edit_ssid2" -> "WiFi Network 2"
      [] field = "edit_ssid3" -> "WiFi Network 3"
      [] field = "edit_telegram" -> "Telegram Token"
      [] field = "edit_alert" -> "Alert Message"
      [] field = "edit_familiar" -> "Family Chat ID"
      [] field = "edit_vecinal" -> "Neighborhood Chat ID"
      [] OTHER -> "Unknown Field"

\* a message text: its kind and the values the code concatenates into it
Msg(kind, a, b) == [kind |-> kind, a |-> a, b |-> b]

getCancelKeyboard == "cancel"
getConfigKeyboard == "config"
getMainMenuKeyboard(c) ==
    IF getChatType(c, getCurrentChatId(c)) = "personal" THEN "main_full" ELSE "main_reduced"

sendStatus(s, chat_id, ok) ==
    safeSendMessage(s, chat_id, Msg("status", s.config.friendlyName, ""), "", ok)

sendMainMenu(s, chat_id, ok) ==
    safeSendMessage(s, chat_id, Msg("main_menu", getChatType(s.config, chat_id), ""),
                    getMainMenuKeyboard(s.config), ok)

sendConfigMenu(s, chat_id, ok) ==
    IF getChatType(s.config, chat_id) # "personal"
    THEN safeSendMessage(s, chat_id, Msg("config_denied", "", ""), "", ok)
    ELSE safeSendMessage(s, chat_id, Msg("config_menu", s.config.friendlyName, ""),
                         getConfigKeyboard, ok)

\* ------------------------------------------------------------------------
\* Conversational editing.  env carries what the environment decides
\* during one handler: env.tx[i] whether the i-th delivery succeeds, env.fs
\* the outcome of a save, env.cam the outcome of a capture and photo upload.
\* ------------------------------------------------------------------------
\* variant that opens a session for any endpoint
startEditMode_anyRole(s, field, chat_id, env) ==
    LET s1 == [s EXCEPT !.editingMode = TRUE,
                        !.editingField = field,
                        !.editingChatID = chat_id,
                        !.editingStartTime = s.now,
                        !.pendingEditValue = ""]
    IN  safeSendMessage(s1, chat_id,
            Msg("edit_prompt", getFieldName(field), getCurrentConfigValue(s.config, field)),
            getCancelKeyboard, env.tx[1])

startEditMode(s, field, chat_id, env) ==
    IF getChatType(s.config, chat_id) # "personal"
    THEN safeSendMessage(s, chat_id, Msg("config_denied", "", ""), "", env.tx[1])
    ELSE LET s1 == [s EXCEPT !.editingMode = TRUE,
                             !.editingField = field,
                             !.editingChatID = chat_id,
                             !.editingStartTime = s.now,
                             !.pendingEditValue = ""]
         IN  safeSendMessage(s1, chat_id,
                 Msg("edit_prompt", getFieldName(field), getCurrentConfigValue(s.config, field)),
                 getCancelKeyboard, env.tx[1])

showEditConfirmation(s, newValue, field, chat_id, env) ==
    LET s1 == [s EXCEPT !.pendingEditValue = newValue]
    IN  safeSendMessage(s1, chat_id,
            Msg("edit_confirm", getCurrentConfigValue(s.config, field), newValue),
            "confirm_cancel", env.tx[1])

\* the strncpy of confirmEdit into the field editingField names;
\* success is FALSE when no branch matches
applyEdit(c, field, value) ==
    CASE field = "edit_name" ->
            [success |-> TRUE, config |-> [c EXCEPT !.friendlyName = strncpy(value, SZ_friendlyName - 1)]]
      [] field = "edit_ssid1" ->
            [success |-> TRUE, config |-> [c EXCEPT !.wifiSSID[1] = strncpy(value, SZ_wifi - 1)]]
      [] field = "edit_ssid2" ->
            [success |-> TRUE, config |-> [c EXCEPT !.wifiSSID[2] = strncpy(value, SZ_wifi - 1)]]
      [] field = "edit_ssid3" ->
            [success |-> TRUE, config |-> [c EXCEPT !.wifiSSID[3] = strncpy(value, SZ_wifi - 1)]]
      [] field = "edit_telegram" ->
            [success |-> TRUE, config |-> [c EXCEPT !.telegramToken = strncpy(value, SZ_telegramToken - 1)]]
      [] field = "edit_alert" ->
            [success |-> TRUE, config |-> [c EXCEPT !.alertMsg = strncpy(value, SZ_alertMsg - 1)]]
      [] field = "edit_familiar" ->
            [success |-> TRUE, config |-> [c EXCEPT !.familiarChatId = strncpy(value, SZ_chatId - 1)]]
      [] field = "edit_vecinal" ->
            [success |-> TRUE, config |-> [c EXCEPT !.vecinalChatId = strncpy(value, SZ_chatId - 1)]]
      [] OTHER -> [success |-> FALSE, config |-> c]

\* faulty variant (C4 tells it apart): any endpoint may confirm an open session
confirmEdit_anySender(s, chat_id, env) ==
    IF ~s.editingMode
    THEN safeSendMessage(s, chat_id, Msg("no_session", "confirm", ""), "", env.tx[1])
    ELSE IF Len(s.pendingEditValue) = 0
    THEN safeSendMessage(s, chat_id, Msg("no_pending", "", ""), "", env.tx[1])
    ELSE LET fieldName == getFieldName(s.editingField)
             r == applyEdit(s.config, s.editingField, s.pendingEditValue)
         IN  IF r.success
             THEN LET s1 == [s EXCEPT !.config = [r.config EXCEPT
                                          !.configVersion = @ + 1]]
                      s2 == saveConfig(s1, env.fs)
                      s3 == safeSendMessage(s2, chat_id,
                                Msg("updated", fieldName, s.pendingEditValue), "", env.tx[1])
                      s4 == resetEditingState(s3)
                  IN  sendConfigMenu(s4, chat_id, env.tx[2])
             ELSE resetEditingState(
                      safeSendMessage(s, chat_id,
                          Msg("unknown_field", s.editingField, ""), "", env.tx[1]))

confirmEdit(s, chat_id, env) ==
    IF ~s.editingMode \/ s.editingChatID # chat_id
    THEN safeSendMessage(s, chat_id, Msg("no_session", "confirm", ""), "", env.tx[1])
    ELSE IF Len(s.pendingEditValue) = 0
    THEN safeSendMessage(s, chat_id, Msg("no_pending", "", ""), "", env.tx[1])
    ELSE LET fieldName == getFieldName(s.editingField)
             r == applyEdit(s.config, s.editingField, s.pendingEditValue)
         IN  IF r.success
             THEN LET s1 == [s EXCEPT !.config = [r.config EXCEPT
                                          !.configVersion = @ + 1]]
                      s2 == saveConfig(s1, env.fs)
                      s3 == safeSendMessage(s2, chat_id,
                                Msg("updated", fieldName, s.pendingEditValue), "", env.tx[1])
                      s4 == resetEditingState(s3)
                  IN  sendConfigMenu(s4, chat_id, env.tx[2])
             ELSE resetEditingState(
                      safeSendMessage(s, chat_id,
                          Msg("unknown_field", s.editingField, ""), "", env.tx[1]))

\* faulty variant (C2 tells it apart): any endpoint may cancel an open session
cancelEdit_anySender(s, chat_id, env) ==
    IF ~s.editingMode
    THEN safeSendMessage(s, chat_id, Msg("no_session", "cancel", ""), "", env.tx[1])
    ELSE LET fieldName == getFieldName(s.editingField)
             s1 == resetEditingState(s)
             s2 == safeSendMessage(s1, chat_id, Msg("cancelled", fieldName, ""), "", env.tx[1])
         IN  sendConfigMenu(s2, chat_id, env.tx[2])

cancelEdit(s, chat_id, env) ==
    IF ~s.editingMode \/ s.editingChatID # chat_id
    THEN safeSendMessage(s, chat_id, Msg("no_session", "cancel", ""), "", env.tx[1])
    ELSE LET fieldName == getFieldName(s.editingField)
             s1 == resetEditingState(s)
             s2 == safeSendMessage(s1, chat_id, Msg("cancelled", fieldName, ""), "", env.tx[1])
         IN  sendConfigMenu(s2, chat_id, env.tx[2])

\* env.cam: "no_frame" (esp_camera_fb_get failed), "photo_ok", "photo_fail"
\* (bot->sendPhoto)
CamOutcomes == {"no_frame", "photo_ok", "photo_fail"}

\* env.ub, the outcome of undefined behaviour (a call through the null bot,
\* a strncpy from a null source): the panic reboot, or the call does
\* nothing and returns
UbOutcomes == {"crash", "empty"}

takePhoto(s, chat_id, env) ==
    LET s1 == safeSendMessage(s, chat_id, Msg("photo_taking", "", ""), "", env.tx[1])
    IN  IF env.cam = "no_frame"
        THEN [safeSendMessage(s1, chat_id, Msg("photo_capture_failed", "", ""), "", env.tx[2])
                EXCEPT !.telegramStats.totalFailedSends = @ + 1]
        ELSE IF ~s.bot /\ env.ub = "crash"
        THEN restart(s1)
        ELSE IF s.bot /\ env.cam = "photo_ok"
        THEN [safeSendMessage(s1, chat_id, Msg("photo_caption", s.config.friendlyName, ""), "", env.tx[2])
                EXCEPT !.telegramStats.totalMessagesSent = @ + 1]
        ELSE [safeSendMessage(s1, chat_id, Msg("photo_send_failed", "", ""), "", env.tx[2])
                EXCEPT !.telegramStats.totalFailedSends = @ + 1]

\* ------------------------------------------------------------------------
\* Message handling
\* ------------------------------------------------------------------------
\* faulty variant (C5 tells it apart): the device name after the comma is
\* not compared, every addressed command runs
handleExactCommands_anyTarget(s, message, chat_id, env) ==
    LET command == extractCommand(message)
    IN  CASE command = "/photo" -> takePhoto(s, chat_id, env)
          [] command = "/status" -> sendStatus(s, chat_id, env.tx[1])
          [] command = "/menu" -> sendMainMenu(s, chat_id, env.tx[1])
          [] command = "/config" -> sendConfigMenu(s, chat_id, env.tx[1])
          [] startsWith(command, "/edit_") -> startEditMode(s, command, chat_id, env)
          [] command = "/confirm_edit" -> confirmEdit(s, chat_id, env)
          [] command = "/cancel" -> cancelEdit(s, chat_id, env)
          [] command = "/restart" ->
               IF getChatType(s.config, chat_id) = "personal"
               THEN restart(delay(safeSendMessage(s, chat_id, Msg("restarting", "", ""), "", env.tx[1]), 1000))
               ELSE safeSendMessage(s, chat_id, Msg("restart_denied", "", ""), "", env.tx[1])
          [] command = "/info" ->
               safeSendMessage(s, chat_id,
                   Msg("info", s.config.friendlyName, getChatType(s.config, chat_id)), "", env.tx[1])
          [] command = "/save_restart" ->
               IF getChatType(s.config, chat_id) = "personal"
               THEN restart(delay(safeSendMessage(saveConfig(s, env.fs), chat_id,
                                Msg("saved_restarting", "", ""), "", env.tx[1]), 2000))
               ELSE s
          [] OTHER ->
               safeSendMessage(s, chat_id,
                   Msg("help", command,
                       IF getChatType(s.config, chat_id) = "personal" THEN "owner" ELSE "basic"),
                   "", env.tx[1])

handleExactCommands(s, message, chat_id, env) ==
    LET command == extractCommand(message)
        deviceName == extractDeviceName(message)
    IN  IF deviceName # s.config.deviceName /\ Len(deviceName) > 0
        THEN s
        ELSE CASE command = "/photo" -> takePhoto(s, chat_id, env)
               [] command = "/status" -> sendStatus(s, chat_id, env.tx[1])
               [] command = "/menu" -> sendMainMenu(s, chat_id, env.tx[1])
               [] command = "/config" -> sendConfigMenu(s, chat_id, env.tx[1])
               [] startsWith(command, "/edit_") -> startEditMode(s, command, chat_id, env)
               [] command = "/confirm_edit" -> confirmEdit(s, chat_id, env)
               [] command = "/cancel" -> cancelEdit(s, chat_id, env)
               [] command = "/restart" ->
                    IF getChatType(s.config, chat_id) = "personal"
                    THEN restart(delay(safeSendMessage(s, chat_id, Msg("restarting", "", ""), "", env.tx[1]), 1000))
                    ELSE safeSendMessage(s, chat_id, Msg("restart_denied", "", ""), "", env.tx[1])
               [] command = "/info" ->
                    safeSendMessage(s, chat_id,
                        Msg("info", s.config.friendlyName, getChatType(s.config, chat_id)), "", env.tx[1])
               [] command = "/save_restart" ->
                    IF getChatType(s.config, chat_id) = "personal"
                    THEN restart(delay(safeSendMessage(saveConfig(s, env.fs), chat_id,
                                     Msg("saved_restarting", "", ""), "", env.tx[1]), 2000))
                    ELSE s
               [] OTHER ->
                    safeSendMessage(s, chat_id,
                        Msg("help", command,
                            IF getChatType(s.config, chat_id) = "personal" THEN "owner" ELSE "basic"),
                        "", env.tx[1])

\* variant that lets one more character through
handleEditingInput_longer(s, message, chat_id, env) ==
    IF elapsed(s.now, s.editingStartTime) > EDITING_TIMEOUT
    THEN safeSendMessage(resetEditingState(s), chat_id, Msg("edit_timeout", "", ""), "", env.tx[1])
    ELSE IF Len(message) = 0
    THEN safeSendMessage(s, chat_id, Msg("empty_input", "", ""), "", env.tx[1])
    ELSE IF Len(message) > MAX_INPUT_LEN + 1
    THEN safeSendMessage(s, chat_id, Msg("input_too_long", "", ""), "", env.tx[1])
    ELSE showEditConfirmation(s, message, s.editingField, chat_id, env)

\* variant whose sessions never run out of time
handleEditingInput_noTimeout(s, message, chat_id, env) ==
    IF Len(message) = 0
    THEN safeSendMessage(s, chat_id, Msg("empty_input", "", ""), "", env.tx[1])
    ELSE IF Len(message) > MAX_INPUT_LEN
    THEN safeSendMessage(s, chat_id, Msg("input_too_long", "", ""), "", env.tx[1])
    ELSE showEditConfirmation(s, message, s.editingField, chat_id, env)

handleEditingInput(s, message, chat_id, env) ==
    IF elapsed(s.now, s.editingStartTime) > EDITING_TIMEOUT
    THEN safeSendMessage(resetEditingState(s), chat_id, Msg("edit_timeout", "", ""), "", env.tx[1])
    ELSE IF Len(message) = 0
    THEN safeSendMessage(s, chat_id, Msg("empty_input", "", ""), "", env.tx[1])
    ELSE IF Len(message) > MAX_INPUT_LEN
    THEN safeSendMessage(s, chat_id, Msg("input_too_long", "", ""), "", env.tx[1])
    ELSE showEditConfirmation(s, message, s.editingField, chat_id, env)

\* faulty variant (C3 tells it apart): a text that starts like a command is
\* parsed as a command even when it comes from the session's endpoint
handleTelegramMessage_commandsFirst(s, message, chat_id, env) ==
    LET s1 == [s EXCEPT !.telegramStats.commandsProcessed = @ + 1]
    IN  IF s1.editingMode /\ chat_id = s1.editingChatID /\ ~startsWith(message, "/")
        THEN handleEditingInput([s1 EXCEPT !.route = "editing"], message, chat_id, env)
        ELSE handleExactCommands([s1 EXCEPT !.route = "exact"], message, chat_id, env)

handleTelegramMessage(s, message, chat_id, env) ==
    LET s1 == [s EXCEPT !.telegramStats.commandsProcessed = @ + 1]
    IN  IF s1.editingMode /\ chat_id = s1.editingChatID
        THEN handleEditingInput([s1 EXCEPT !.route = "editing"], message, chat_id, env)
        ELSE handleExactCommands([s1 EXCEPT !.route = "exact"], message, chat_id, env)

\* ------------------------------------------------------------------------
\* BLE provisioning
\* ------------------------------------------------------------------------
updateBLEStatus(s, status) ==
    [s EXCEPT !.bleStatus = status, !.events = Append(@, "status " \o status)]

initBLE(s) == updateBLEStatus([s EXCEPT !.bleActive = TRUE], "waiting_for_connection")

\* variant that shuts the radio down and returns to the caller
triggerConfigurationRestart_returns(s) == delay([s EXCEPT !.bleActive = FALSE], 1000)

triggerConfigurationRestart(s) == restart(delay([s EXCEPT !.bleActive = FALSE], 1000))

\* A value written to the config characteristic: empty, not parseable, or a
\* JSON object, given as the function from its keys to their string values
containsKey(doc, k) == k \in DOMAIN doc

\* faulty variant (C11 tells it apart): wifiPassword is not required, a
\* payload without it is taken with the password left as it was
processBLEConfiguration_optionalPassword(s, payload, env) ==
    IF payload.kind = "malformed"
    THEN updateBLEStatus(s, "config_error_invalid_json")
    ELSE LET doc == payload.doc
             c == s.config
         IN  IF ~containsKey(doc, "telegramToken") \/ ~containsKey(doc, "wifiSSID")
             THEN updateBLEStatus(s, "config_error_missing_fields")
             ELSE LET c1 == IF containsKey(doc, "friendlyName")
                            THEN [c EXCEPT !.friendlyName = strncpy(doc["friendlyName"], SZ_friendlyName - 1)]
                            ELSE c
                      c2 == [c1 EXCEPT !.telegramToken = strncpy(doc["telegramToken"], SZ_telegramToken - 1),
                                       !.wifiSSID[1] = strncpy(doc["wifiSSID"], SZ_wifi - 1),
                                       !.wifiPassword[1] =
                                           IF containsKey(doc, "wifiPassword")
                                           THEN strncpy(doc["wifiPassword"], SZ_wifi - 1) ELSE @]
                      c6 == [c2 EXCEPT !.isConfigured = TRUE,
                                       !.configVersion = @ + 1]
                  IN  triggerConfigurationRestart(delay(
                          updateBLEStatus(saveConfig([s EXCEPT !.config = c6], env.fs),
                                          "config_received_restarting"), 2000))

\* strncpy(dst, doc[k], n) with k absent passes a null source: undefined
\* behaviour, either the panic reboot or nothing copied (env.ub)
processBLEConfiguration(s, payload, env) ==
    IF payload.kind = "malformed"
    THEN updateBLEStatus(s, "config_error_invalid_json")
    ELSE LET doc == payload.doc
             c == s.config
         IN  IF ~containsKey(doc, "telegramToken") \/ ~containsKey(doc, "wifiSSID")
                    \/ ~containsKey(doc, "wifiPassword")
             THEN updateBLEStatus(s, "config_error_missing_fields")
             ELSE LET c1 == IF containsKey(doc, "friendlyName")
                            THEN [c EXCEPT !.friendlyName = strncpy(doc["friendlyName"], SZ_friendlyName - 1)]
                            ELSE c
                      c2 == [c1 EXCEPT !.telegramToken = strncpy(doc["telegramToken"], SZ_telegramToken - 1),
                                       !.wifiSSID[1] = strncpy(doc["wifiSSID"], SZ_wifi - 1),
                                       !.wifiPassword[1] = strncpy(doc["wifiPassword"], SZ_wifi - 1)]
                      null2 == containsKey(doc, "wifiSSID2") /\ ~containsKey(doc, "wifiPassword2")
                      c3 == IF containsKey(doc, "wifiSSID2")
                            THEN [c2 EXCEPT !.wifiSSID[2] = strncpy(doc["wifiSSID2"], SZ_wifi - 1),
                                            !.wifiPassword[2] =
                                                IF null2 THEN @
                                                ELSE strncpy(doc["wifiPassword2"], SZ_wifi - 1)]
                            ELSE c2
                      null3 == containsKey(doc, "wifiSSID3") /\ ~containsKey(doc, "wifiPassword3")
                      c4 == IF containsKey(doc, "wifiSSID3")
                            THEN [c3 EXCEPT !.wifiSSID[3] = strncpy(doc["wifiSSID3"], SZ_wifi - 1),
                                            !.wifiPassword[3] =
                                                IF null3 THEN @
                                                ELSE strncpy(doc["wifiPassword3"], SZ_wifi - 1)]
                            ELSE c3
                      c5 == IF containsKey(doc, "alertMsg")
                            THEN [c4 EXCEPT !.alertMsg = strncpy(doc["alertMsg"], SZ_alertMsg - 1)]
                            ELSE c4
                      c6 == [c5 EXCEPT !.isConfigured = TRUE,
                                       !.configVersion = @ + 1]
                  IN  IF null2 /\ env.ub = "crash"
                      THEN restart([s EXCEPT !.config = c3])
                      ELSE IF null3 /\ env.ub = "crash"
                      THEN restart([s EXCEPT !.config = c4])
                      ELSE triggerConfigurationRestart(delay(
                               updateBLEStatus(saveConfig([s EXCEPT !.config = c6], env.fs),
                                               "config_received_restarting"), 2000))

\* ConfigCharacteristicCallbacks::onWrite
ConfigCharacteristic_onWrite(s, payload, env) ==
    IF payload.kind = "empty" THEN s ELSE processBLEConfiguration(s, payload, env)

\* CommandCharacteristicCallbacks::onWrite
CommandCharacteristic_onWrite(s, command) ==
    IF command = "telegram_opened"
    THEN triggerConfigurationRestart(delay(updateBLEStatus(s, "telegram_opened_restarting"), 2000))
    ELSE s

\* variant of MyServerCallbacks::onConnect that enters the PIN phase when the
\* PIN is generated
onConnect_pinPhase(s, pin) ==
    updateBLEStatus([s EXCEPT !.deviceConnected = TRUE,
                              !.config.devicePIN = strncpy(pin, SZ_devicePIN - 1),
                              !.currentState = "PIN_CONFIG_PHASE"],
                    "connected_pin_ready")

onConnect(s, pin) ==
    updateBLEStatus([s EXCEPT !.deviceConnected = TRUE,
                              !.config.devicePIN = strncpy(pin, SZ_devicePIN - 1)],
                    "connected_pin_ready")

onDisconnect(s) == [s EXCEPT !.deviceConnected = FALSE]

\* ------------------------------------------------------------------------
\* Startup
\* ------------------------------------------------------------------------
sendStartupAlertsToAllChats(s, tx) ==
    LET c == s.config
        s1 == IF Len(c.personalChatId) > 0
              THEN safeSendMessage(s, c.personalChatId, Msg("startup_alert", c.alertMsg, ""),
                                   getMainMenuKeyboard(c), tx[1])
              ELSE s
        s2 == IF Len(c.familiarChatId) > 0
              THEN safeSendMessage(s1, c.familiarChatId, Msg("startup_alert", c.alertMsg, ""), "", tx[2])
              ELSE s1
    IN  IF Len(c.vecinalChatId) > 0
        THEN safeSendMessage(s2, c.vecinalChatId, Msg("startup_alert", c.alertMsg, ""), "", tx[3])
        ELSE s2

\* the globals as the C++ initialisers leave them at power-on or reset
BootState(f) ==
    [config |-> ZeroConfig, file |-> f, currentState |-> "NEED_CONFIG", pc |-> "loop",
     editingMode |-> FALSE, editingField |-> "", editingChatID |-> "",
     pendingEditValue |-> "", editingStartTime |-> 0,
     telegramStats |-> ZeroStats, lastMessageTime |-> 0,
     bot |-> FALSE, wifi |-> FALSE, bleActive |-> FALSE, bleStatus |-> "",
     bleConfigStartTime |-> 0,
     deviceConnected |-> FALSE,
     isFirstUpdateAfterBoot |-> TRUE, lastTelegramPoll |-> 0, lastHealthCheck |-> 0,
     lastReconnectAttempt |-> 0, lp |-> "switch", inbox |-> 0, updates |-> updates,
     now |-> 0, out |-> <<>>, events |-> <<>>, sendLog |-> <<>>, role |-> "",
     route |-> "none",
     bootPath |-> <<>>,
     valid |-> FALSE]

\* connectWiFiWithFallback() can succeed only on a network with a name
canConnect(c) == \E i \in 1..3 : Len(c.wifiSSID[i]) > 0

\* faulty variant (C8 tells it apart): the state is chosen from the
\* isConfigured flag instead of the validity check
setup_byFlag(s, pin, wifiOk, tx) ==
    LET s1 == [s EXCEPT !.config = loadConfig(s.file, pin)]
        s1r == resetEditingState(initializeTelegramStats(s1))
        s2 == [s1r EXCEPT !.valid = hasValidConfig(s1r.config)]
    IN  IF ~s2.config.isConfigured
        THEN LET s3 == initBLE([s2 EXCEPT !.currentState = "NEED_CONFIG"])
             IN  [s3 EXCEPT !.bleConfigStartTime = s3.now,
                            !.currentState = "BLE_CONFIG_PHASE",
                            !.bootPath = <<"NEED_CONFIG", "BLE_CONFIG_PHASE">>]
        ELSE LET s3 == [s2 EXCEPT !.currentState = "NORMAL_OPERATION",
                                  !.bootPath = <<"NORMAL_OPERATION">>]
             IN  IF wifiOk /\ canConnect(s3.config)
                 THEN sendStartupAlertsToAllChats([s3 EXCEPT !.wifi = TRUE, !.bot = TRUE], tx)
                 ELSE s3

setup(s, pin, wifiOk, tx) ==
    LET s1 == [s EXCEPT !.config = loadConfig(s.file, pin)]
        s1r == resetEditingState(initializeTelegramStats(s1))
        s2 == [s1r EXCEPT !.valid = hasValidConfig(s1r.config)]
    IN  IF ~s2.valid
        THEN LET s3 == initBLE([s2 EXCEPT !.currentState = "NEED_CONFIG"])
             IN  [s3 EXCEPT !.bleConfigStartTime = s3.now,
                            !.currentState = "BLE_CONFIG_PHASE",
                            !.bootPath = <<"NEED_CONFIG", "BLE_CONFIG_PHASE">>]
        ELSE LET s3 == [s2 EXCEPT !.currentState = "NORMAL_OPERATION",
                                  !.bootPath = <<"NORMAL_OPERATION">>]
             IN  IF wifiOk /\ canConnect(s3.config)
                 THEN sendStartupAlertsToAllChats([s3 EXCEPT !.wifi = TRUE, !.bot = TRUE], tx)
                 ELSE s3

\* ------------------------------------------------------------------------
\* Main loop
\* ------------------------------------------------------------------------
\* env.net: whether a WiFi connection attempt succeeds
connectWiFiWithFallback(s, env) == [s EXCEPT !.wifi = env.net /\ canConnect(s.config)]

\* env.lowMem: ESP.getFreeHeap() < 50000
\* variant that goes back to provisioning when the network cannot be restored
checkSystemHealth_fallsBack(s, env) ==
    LET s1 == IF env.lowMem THEN [s EXCEPT !.telegramStats.lastError = "Low memory"] ELSE s
    IN  IF ~s1.wifi /\ s1.currentState = "NORMAL_OPERATION"
        THEN LET s2 == connectWiFiWithFallback(s1, env)
             IN  IF s2.wifi THEN s2
                 ELSE [s2 EXCEPT !.telegramStats.lastError = "WiFi connection failed",
                                 !.currentState = "BLE_CONFIG_PHASE"]
        ELSE s1

checkSystemHealth(s, env) ==
    LET s1 == IF env.lowMem THEN [s EXCEPT !.telegramStats.lastError = "Low memory"] ELSE s
    IN  IF ~s1.wifi /\ s1.currentState = "NORMAL_OPERATION"
        THEN LET s2 == connectWiFiWithFallback(s1, env)
             IN  IF s2.wifi THEN s2
                 ELSE [s2 EXCEPT !.telegramStats.lastError = "WiFi connection failed"]
        ELSE s1

\* up to the for loop over the batch; n is what getUpdates returns
handleProductionTelegramPolling(s, n) ==
    IF ~s.bot THEN s
    ELSE IF s.isFirstUpdateAfterBoot /\ s.now < FIRST_BOOT_PROTECTION THEN s
    ELSE LET s1 == [s EXCEPT !.isFirstUpdateAfterBoot = FALSE]
             pollInterval == IF s.editingMode THEN EDITING_POLL_INTERVAL ELSE POLL_INTERVAL
         IN  IF elapsed(s1.now, s1.lastTelegramPoll) < pollInterval
             THEN s1
             ELSE [s1 EXCEPT !.lastTelegramPoll = s1.now,
                             !.telegramStats.pollCount = @ + 1,
                             !.inbox = n,
                             !.lp = IF n > 0 THEN "poll" ELSE @]

\* whether handleProductionTelegramPolling would call getUpdates now
pollDue(s) ==
    /\ s.currentState = "NORMAL_OPERATION" /\ s.wifi /\ s.bot
    /\ ~(s.isFirstUpdateAfterBoot /\ s.now < FIRST_BOOT_PROTECTION)
    /\ elapsed(s.now, s.lastTelegramPoll) >=
           (IF s.editingMode THEN EDITING_POLL_INTERVAL ELSE POLL_INTERVAL)

\* variant that carries on in a state it does not know
loopSwitch_ignoresUnknown(s, n, env) ==
    LET s0 == [s EXCEPT !.lp = "tail"]
    IN  CASE s.currentState = "BLE_CONFIG_PHASE" ->
                IF elapsed(s.now, s.bleConfigStartTime) > BLE_SESSION_TIMEOUT
                THEN restart(s0) ELSE s0
          [] s.currentState = "PIN_CONFIG_PHASE" ->
                IF elapsed(s.now, 0) > PIN_CONFIG_TIMEOUT THEN restart(s0) ELSE s0
          [] s.currentState = "NORMAL_OPERATION" ->
                IF s.wifi /\ s.bot
                THEN handleProductionTelegramPolling(s0, n)
                ELSE IF ~s.wifi /\ elapsed(s.now, s.lastReconnectAttempt) > RECONNECT_INTERVAL
                THEN [connectWiFiWithFallback(s0, env) EXCEPT !.lastReconnectAttempt = s.now]
                ELSE s0
          [] OTHER -> s0

\* variant whose provisioning phase has no time limit
loopSwitch_noSessionTimeout(s, n, env) ==
    LET s0 == [s EXCEPT !.lp = "tail"]
    IN  CASE s.currentState = "BLE_CONFIG_PHASE" -> s0
          [] s.currentState = "PIN_CONFIG_PHASE" ->
                IF elapsed(s.now, 0) > PIN_CONFIG_TIMEOUT THEN restart(s0) ELSE s0
          [] s.currentState = "NORMAL_OPERATION" ->
                IF s.wifi /\ s.bot
                THEN handleProductionTelegramPolling(s0, n)
                ELSE IF ~s.wifi /\ elapsed(s.now, s.lastReconnectAttempt) > RECONNECT_INTERVAL
                THEN [connectWiFiWithFallback(s0, env) EXCEPT !.lastReconnectAttempt = s.now]
                ELSE s0
          [] OTHER -> restart(s0)

\* the switch (currentState) of loop(), without the periodic health check
loopSwitch(s, n, env) ==
    LET s0 == [s EXCEPT !.lp = "tail"]
    IN  CASE s.currentState = "BLE_CONFIG_PHASE" ->
                IF elapsed(s.now, s.bleConfigStartTime) > BLE_SESSION_TIMEOUT
                THEN restart(s0) ELSE s0
          [] s.currentState = "PIN_CONFIG_PHASE" ->
                \* pinPhaseStartTime is never assigned: it is 0
                IF elapsed(s.now, 0) > PIN_CONFIG_TIMEOUT THEN restart(s0) ELSE s0
          [] s.currentState = "NORMAL_OPERATION" ->
                IF s.wifi /\ s.bot
                THEN handleProductionTelegramPolling(s0, n)
                ELSE IF ~s.wifi /\ elapsed(s.now, s.lastReconnectAttempt) > RECONNECT_INTERVAL
                THEN [connectWiFiWithFallback(s0, env) EXCEPT !.lastReconnectAttempt = s.now]
                ELSE s0
          [] OTHER -> restart(s0)

\* the health check that ends case NORMAL_OPERATION
loopHealth(s, env) ==
    IF s.currentState = "NORMAL_OPERATION"
          /\ elapsed(s.now, s.lastHealthCheck) > HEALTH_CHECK_INTERVAL
    THEN [checkSystemHealth(s, env) EXCEPT !.lastHealthCheck = s.now]
    ELSE s

\* command is the line read from Serial, "" when nothing is available
handleSerialCommands(s, command, env) ==
    CASE command = "restart" -> restart(delay(s, 1000))
      [] command = "reset" -> restart(delay([s EXCEPT !.file = NoFile], 1000))
      [] command = "test_photo" ->
            IF Len(s.config.personalChatId) > 0
            THEN takePhoto(s, s.config.personalChatId, env) ELSE s
      [] startsWith(command, "send ") ->
            IF Len(s.config.personalChatId) > 0
            THEN safeSendMessage(s, s.config.personalChatId,
                     Msg("test_message", substringFrom(command, 5), ""), "", env.tx[1])
            ELSE s
      [] command = "ble_start" ->
            IF s.currentState # "BLE_CONFIG_PHASE"
            THEN initBLE([s EXCEPT !.currentState = "BLE_CONFIG_PHASE"])
            ELSE s
      [] command = "ble_stop" ->
            IF s.currentState = "BLE_CONFIG_PHASE"
            THEN [s EXCEPT !.bleActive = FALSE, !.currentState = "NORMAL_OPERATION"]
            ELSE s
      [] OTHER -> s

\* what follows the switch in one iteration of loop(); the connection
\* management that ends loop() only restarts the BLE advertising
loopTail(s, command, env) ==
    LET s1 == loopHealth(s, env)
        s2 == handleSerialCommands(s1, command, env)
    IN  IF s2.pc = "setup" THEN s2
        ELSE [s2 EXCEPT !.lp = "switch"]

\* one message of the batch in the for loop of handleProductionTelegramPolling
pollMessage(s, message, chat_id, env) ==
    LET s1 == handleTelegramMessage(s, message, chat_id, env)
    IN  [s1 EXCEPT !.inbox = @ - 1, !.updates = Tail(@),
                   !.lp = IF s.inbox = 1 THEN "tail" ELSE "poll"]

\* ------------------------------------------------------------------------
\* Inputs
\* ------------------------------------------------------------------------
\* configurations received before the bounds stop further intakes
MaxVersion == 2
\* deliveries counted before the console stops sending
MaxSends == 4

Owner == "1001"
Family == "-2002"
Neighbors == "-3003"
Stranger == "4004"
Chats == {Owner, Family, Neighbors, Stranger}

Token46 == Rep("t", 46)
Long101 == Rep("x", MAX_INPUT_LEN + 1)
OtherDevice == "CAM 99"

\* a config.json written for a device that was provisioned with its chats
ProvisionedConfig ==
    [deviceName |-> ChipName, friendlyName |-> "Front Door", devicePIN |-> "100",
     wifiSSID |-> <<"Home", "", "">>, wifiPassword |-> <<"pw123456", "", "">>,
     telegramToken |-> Token46, personalChatId |-> Owner, familiarChatId |-> Family,
     vecinalChatId |-> Neighbors, alertMsg |-> "Smart Witness Alert",
     isConfigured |-> TRUE, pinConfigured |-> TRUE, configVersion |-> 1]

EditCommands == {"/edit_name", "/edit_ssid1", "/edit_ssid2", "/edit_ssid3",
                 "/edit_telegram", "/edit_alert", "/edit_familiar", "/edit_vecinal"}

OwnerOnlyCommands == EditCommands \cup {"/config", "/confirm_edit", "/cancel", "/restart", "/save_restart"}

\* every text the handlers are examined on in each state
AllTexts == OwnerOnlyCommands
            \cup {"/photo", "/status", "/menu", "/info", "/help", "/edit_bogus", "Intruder!", "", Long101}
            \cup {t \o "," \o ChipName : t \in OwnerOnlyCommands \cup {"/photo", "/help"}}
            \cup {t \o "," \o OtherDevice : t \in OwnerOnlyCommands \cup {"/photo", "/help"}}

From(chat_id, text) == [chat_id |-> chat_id, text |-> text]

\* the conversations the Telegram server delivers
Conversations ==
    {<<From(Owner, "/edit_alert"), From(Owner, "Intruder!"), From(Owner, "/confirm_edit")>>,
     <<From(Owner, "/edit_alert"), From(Family, "/confirm_edit"), From(Owner, "/photo," \o OtherDevice)>>,
     <<From(Owner, "/edit_familiar"), From(Stranger, "/cancel"), From(Owner, "/cancel")>>,
     <<From(Family, "/save_restart"), From(Family, "/config"), From(Owner, "/save_restart")>>,
     <<From(Neighbors, "/edit_alert"), From(Owner, "/confirm_edit"), From(Neighbors, "/restart")>>,
     <<From(Owner, "/edit_alert"), From(Owner, ""), From(Owner, Long101)>>,
     <<From(Owner, "/config," \o OtherDevice), From(Family, "/photo"), From(Owner, "/restart")>>}

SerialCommands == {"", "status", "restart", "reset", "test_photo", "send hi",
                   "ble_start", "ble_stop"}

PayloadValues ==
    [telegramToken |-> Token46, wifiSSID |-> "Home", wifiPassword |-> "pw123456",
     friendlyName |-> "Kitchen Cam", wifiSSID2 |-> "Second", wifiPassword2 |-> "pw2",
     wifiSSID3 |-> "Third", wifiPassword3 |-> "pw3", alertMsg |-> Rep("a", SZ_alertMsg + 1)]

RequiredKeys == {"telegramToken", "wifiSSID", "wifiPassword"}

PayloadKeySets ==
    {RequiredKeys,
     {"wifiSSID", "wifiPassword"}, {"telegramToken", "wifiPassword"}, {"telegramToken", "wifiSSID"},
     RequiredKeys \cup {"wifiSSID2"},
     DOMAIN PayloadValues}

Payloads ==
    {[kind |-> "empty", doc |-> <<>>], [kind |-> "malformed", doc |-> <<>>]}
    \cup {[kind |-> "json", doc |-> [k \in K |-> PayloadValues[k]]] : K \in PayloadKeySets}

BleCommands == {"telegram_opened", "ping"}

AllOk == <<TRUE, TRUE, TRUE>>

DefaultEnv ==
    [tx |-> AllOk, fs |-> "ok", cam |-> "photo_ok", ub |-> "crash",
     net |-> TRUE, lowMem |-> FALSE]

Tx == {AllOk, <<FALSE, TRUE, TRUE>>}

\* every environment that makes a difference to the handling of a message
EnvsOf(message) ==
    LET command == extractCommand(message)
    IN  {[DefaultEnv EXCEPT !.tx = t, !.fs = f, !.cam = c] :
            t \in {<<a, b, TRUE>> : a \in BOOLEAN,
                       b \in IF command \in {"/photo", "/confirm_edit", "/cancel"}
                             THEN BOOLEAN ELSE {TRUE}},
            f \in IF command \in {"/confirm_edit", "/save_restart"} THEN FsOutcomes ELSE {"ok"},
            c \in IF command = "/photo" THEN CamOutcomes ELSE {"photo_ok"}}

\* ------------------------------------------------------------------------
\* Deployments: what surrounds the device.  file is the config.json it
\* starts with, updates the conversation the Telegram server delivers,
\* console the lines an operator types, phone whether a BLE client is in
\* range; the other fields say which failures the surroundings produce.
\* ------------------------------------------------------------------------
Quiet ==
    [file |-> JsonFile(ProvisionedConfig), updates |-> <<>>, console |-> {},
     phone |-> FALSE, flakyWifi |-> FALSE, txFaults |-> FALSE, fsFaults |-> FALSE,
     camFaults |-> FALSE, lowMem |-> FALSE]

Deployments ==
    \* a new device on the bench: BLE provisioning and the console
    {[Quiet EXCEPT !.file = NoFile, !.phone = TRUE, !.fsFaults = TRUE,
                   !.console = {"restart", "reset", "ble_start", "ble_stop"}]}
    \* a provisioned device that is provisioned again from the console
    \cup {[Quiet EXCEPT !.phone = TRUE, !.console = {"ble_start", "ble_stop"}, !.fsFaults = TRUE,
                        !.updates = <<From(Owner, "/edit_alert"), From(Owner, "/menu")>>]}
    \* a deployed device and its chats
    \cup {[Quiet EXCEPT !.updates = u, !.fsFaults = TRUE, !.txFaults = TRUE] : u \in Conversations}
    \* a deployed device on an unreliable network
    \cup {[Quiet EXCEPT !.flakyWifi = TRUE, !.lowMem = TRUE,
                        !.updates = <<From(Family, "/menu"), From(Owner, "/info")>>]}
    \* a deployed device driven from the console
    \cup {[Quiet EXCEPT !.console = {"status", "test_photo", "send hi", "restart"},
                        !.txFaults = TRUE, !.camFaults = TRUE]}

TxOf(d) == IF d.txFaults THEN Tx ELSE {AllOk}
FsOf(d) == IF d.fsFaults THEN FsOutcomes ELSE {"ok"}
CamOf(d) == IF d.camFaults THEN CamOutcomes ELSE {"photo_ok"}
NetOf(d) == IF d.flakyWifi THEN BOOLEAN ELSE {TRUE}
MemOf(d) == IF d.lowMem THEN BOOLEAN ELSE {FALSE}

\* the environment choices that matter to a chat message, a console
\* command, and a configuration payload
MessageEnvs(d, message) ==
    LET command == extractCommand(message)
    IN  {[DefaultEnv EXCEPT !.tx = t, !.fs = f, !.cam = c] :
            t \in TxOf(d),
            f \in IF command \in {"/confirm_edit", "/save_restart"} THEN FsOf(d) ELSE {"ok"},
            c \in IF command = "/photo" THEN CamOf(d) ELSE {"photo_ok"}}

SerialEnvs(d, command) ==
    {[DefaultEnv EXCEPT !.tx = t, !.cam = c, !.ub = u, !.net = n, !.lowMem = m] :
        t \in IF command \in {"test_photo", "send hi"} THEN TxOf(d) ELSE {AllOk},
        c \in IF command = "test_photo" THEN CamOf(d) ELSE {"photo_ok"},
        u \in IF command = "test_photo" THEN UbOutcomes ELSE {"crash"},
        n \in NetOf(d), m \in MemOf(d)}

\* the health check reads the environment only when it is due
healthDue(s) ==
    s.currentState = "NORMAL_OPERATION" /\ elapsed(s.now, s.lastHealthCheck) > HEALTH_CHECK_INTERVAL

PayloadEnvs(d) == {[DefaultEnv EXCEPT !.fs = f, !.ub = u] : f \in FsOf(d), u \in UbOutcomes}

In(op, a, b) == [op |-> op, a |-> a, b |-> b]

\* ------------------------------------------------------------------------
\* Actions
\* ------------------------------------------------------------------------
Init ==
    /\ deployment \in Deployments
    /\ file = deployment.file
    /\ updates = deployment.updates
    /\ config = ZeroConfig
    /\ currentState = "NEED_CONFIG"
    /\ pc = "setup"
    /\ lp = "switch"
    /\ inbox = 0
    /\ editingMode = FALSE /\ editingField = "" /\ editingChatID = ""
    /\ pendingEditValue = "" /\ editingStartTime = 0
    /\ telegramStats = ZeroStats
    /\ lastMessageTime = 0
    /\ bot = FALSE /\ wifi = FALSE
    /\ bleActive = FALSE /\ deviceConnected = FALSE
    /\ bleStatus = "" /\ bleConfigStartTime = 0
    /\ isFirstUpdateAfterBoot = TRUE /\ lastTelegramPoll = 0
    /\ lastHealthCheck = 0 /\ lastReconnectAttempt = 0
    /\ now = 0 /\ stateSince = 0 /\ sendLog = <<>> /\ role = "" /\ wait = NoWait
    /\ out = <<>> /\ events = <<>> /\ route = "none" /\ bootPath = <<>> /\ valid = FALSE
    /\ lastIn = In("power_on", "", "")

\* setup() after power-on or ESP.restart()
Setup ==
    /\ pc = "setup"
    /\ \E pin \in Pins, wifiOk \in NetOf(deployment), tx \in TxOf(deployment) :
          Commit(setup(BootState(file), pin, wifiOk, tx))
    /\ lastIn' = In("setup", "", "")
    /\ UNCHANGED deployment

\* time passes between two iterations of loop()
Tick ==
    /\ pc = "loop" /\ lp = "switch"
    /\ now + TickStep <= MaxNow
    /\ Commit([Cur EXCEPT !.now = now + TickStep])
    /\ lastIn' = In("tick", "", "")
    /\ UNCHANGED deployment

\* the network drops the WiFi connection
WifiLost ==
    /\ pc = "loop" /\ lp = "switch" /\ wifi
    /\ deployment.flakyWifi
    /\ Commit([Cur EXCEPT !.wifi = FALSE])
    /\ lastIn' = In("wifi_lost", "", "")
    /\ UNCHANGED deployment

\* the switch of loop(); n is the size of the batch getUpdates returns
LoopSwitch ==
    /\ pc = "loop" /\ lp = "switch"
    /\ \E n \in 0..MaxBatch, net \in NetOf(deployment) :
          /\ n = 0 \/ pollDue(Cur)
          /\ net \/ (currentState = "NORMAL_OPERATION" /\ ~wifi)
          /\ n <= Len(updates)
          /\ Commit(loopSwitch(Cur, n, [DefaultEnv EXCEPT !.net = net]))
    /\ lastIn' = In("switch", "", "")
    /\ UNCHANGED deployment

\* one turn of the for loop over the batch
PollMessage ==
    /\ pc = "loop" /\ lp = "poll" /\ inbox > 0
    /\ LET chat_id == Head(updates).chat_id
           message == Head(updates).text
       IN  /\ \E env \in MessageEnvs(deployment, message) :
                 Commit(pollMessage(Cur, message, chat_id, env))
           /\ lastIn' = In("msg", chat_id, message)
    /\ UNCHANGED deployment

\* health check and console, the rest of the iteration
LoopTail ==
    /\ pc = "loop" /\ lp = "tail"
    /\ \E command \in {""} \cup deployment.console :
          /\ command \in {"test_photo", "send hi"} =>
                telegramStats.totalMessagesSent + telegramStats.totalFailedSends < MaxSends
          /\ \E env \in SerialEnvs(deployment, command) :
                /\ healthDue(Cur) \/ (env.net /\ ~env.lowMem)
                /\ Commit(loopTail(Cur, command, env))
          /\ lastIn' = In("tail", command, "")
    /\ UNCHANGED deployment

BLEConnect ==
    /\ pc = "loop" /\ bleActive /\ ~deviceConnected
    /\ deployment.phone
    /\ \E pin \in Pins : Commit(onConnect(Cur, pin))
    /\ lastIn' = In("ble_connect", "", "")
    /\ UNCHANGED deployment

BLEDisconnect ==
    /\ pc = "loop" /\ bleActive /\ deviceConnected
    /\ Commit(onDisconnect(Cur))
    /\ lastIn' = In("ble_disconnect", "", "")
    /\ UNCHANGED deployment

BLEConfigWrite ==
    /\ pc = "loop" /\ bleActive /\ deviceConnected
    /\ config.configVersion < MaxVersion
    /\ \E payload \in Payloads :
          /\ \E env \in PayloadEnvs(deployment) :
                Commit(ConfigCharacteristic_onWrite(Cur, payload, env))
          /\ lastIn' = [op |-> "ble_config", a |-> payload.kind, b |-> "", payload |-> payload]
    /\ UNCHANGED deployment

BLECommandWrite ==
    /\ pc = "loop" /\ bleActive /\ deviceConnected
    /\ \E command \in BleCommands :
          /\ Commit(CommandCharacteristic_onWrite(Cur, command))
          /\ lastIn' = In("ble_command", command, "")
    /\ UNCHANGED deployment

Next ==
    \/ Setup
    \/ Tick
    \/ WifiLost
    \/ LoopSwitch
    \/ PollMessage
    \/ LoopTail
    \/ BLEConnect
    \/ BLEDisconnect
    \/ BLEConfigWrite
    \/ BLECommandWrite

Spec == Init /\ [][Next]_vars

\* ------------------------------------------------------------------------
\* The validity check on its own: hasValidConfig() applied to configs drawn
\* from every combination of present, absent and boundary-length fields
\* ------------------------------------------------------------------------
ConfigSamples ==
    {[ZeroConfig EXCEPT !.deviceName = d, !.devicePIN = p, !.wifiSSID = w,
                        !.telegramToken = t, !.personalChatId = o] :
        d \in {"", ChipName},
        p \in {"", "99", "998", "9980"},
        w \in [1..3 -> {"", "Home"}],
        t \in {"", Rep("t", MIN_TOKEN_LEN - 1), Rep("t", MIN_TOKEN_LEN), Token46},
        o \in {"", Owner}}

InitValid ==
    /\ deployment = Quiet
    /\ file = NoFile
    /\ updates = <<>>
    /\ config \in ConfigSamples
    /\ currentState = "NEED_CONFIG"
    /\ pc = "check"
    /\ lp = "switch"
    /\ inbox = 0
    /\ editingMode = FALSE /\ editingField = "" /\ editingChatID = ""
    /\ pendingEditValue = "" /\ editingStartTime = 0
    /\ telegramStats = ZeroStats
    /\ lastMessageTime = 0
    /\ bot = FALSE /\ wifi = FALSE
    /\ bleActive = FALSE /\ deviceConnected = FALSE
    /\ bleStatus = "" /\ bleConfigStartTime = 0
    /\ isFirstUpdateAfterBoot = TRUE /\ lastTelegramPoll = 0
    /\ lastHealthCheck = 0 /\ lastReconnectAttempt = 0
    /\ now = 0 /\ stateSince = 0 /\ sendLog = <<>> /\ role = "" /\ wait = NoWait
    /\ out = <<>> /\ events = <<>> /\ route = "none" /\ bootPath = <<>> /\ valid = FALSE
    /\ lastIn = In("power_on", "", "")

\* one call of hasValidConfig()
CheckValid ==
    /\ pc = "check"
    /\ Commit([Cur EXCEPT !.valid = hasValidConfig(config), !.pc = "checked"])
    /\ lastIn' = In("hasValidConfig", "", "")
    /\ UNCHANGED deployment

NextValid == CheckValid

SpecValid == InitValid /\ [][NextValid]_vars

\* ------------------------------------------------------------------------
\* Deliveries to the millisecond: a device in operation whose handlers call
\* safeSendMessage one call after the other, with or without a pause
\* ------------------------------------------------------------------------
\* calls of safeSendMessage in one run
MaxCalls == 2
\* most milliseconds between the two reads of millis() in the rate limiter
MaxLag == 2

\* what the transport answers to the three attempts
Transports == {<<TRUE, TRUE, TRUE>>, <<FALSE, TRUE, TRUE>>, <<FALSE, FALSE, TRUE>>,
               <<FALSE, FALSE, FALSE>>}
\* milliseconds one call of the transport takes
Latency == 120
\* milliseconds between the return of a handler and the next call
Pauses == {1, 1499, 1500, 4000}
\* the clock at the first call
FirstCalls == {0, 5000}

InitSend ==
    /\ deployment = Quiet
    /\ file = JsonFile(ProvisionedConfig)
    /\ updates = <<>>
    /\ config = ProvisionedConfig
    /\ currentState = "NORMAL_OPERATION"
    /\ pc = "loop"
    /\ lp = "switch"
    /\ inbox = 0
    /\ editingMode = FALSE /\ editingField = "" /\ editingChatID = ""
    /\ pendingEditValue = "" /\ editingStartTime = 0
    /\ telegramStats = ZeroStats
    /\ lastMessageTime = 0
    /\ bot \in BOOLEAN /\ wifi = TRUE
    /\ bleActive = FALSE /\ deviceConnected = FALSE
    /\ bleStatus = "" /\ bleConfigStartTime = 0
    /\ isFirstUpdateAfterBoot = TRUE /\ lastTelegramPoll = 0
    /\ lastHealthCheck = 0 /\ lastReconnectAttempt = 0
    /\ now \in FirstCalls /\ stateSince = 0 /\ sendLog = <<>> /\ role = "" /\ wait = NoWait
    /\ out = <<>> /\ events = <<>> /\ route = "none" /\ bootPath = <<>> /\ valid = TRUE
    /\ lastIn = [op |-> "power_on", a |-> "", b |-> "", tr |-> <<>>]

\* one call of safeSendMessage
Send ==
    /\ pc = "loop" /\ Len(sendLog) < MaxCalls
    /\ \E chat_id \in {Owner, Family}, tr \in Transports, lag \in 0..MaxLag :
          /\ Commit(safeSendMessageTimed([Cur EXCEPT !.out = out], chat_id,
                                         Msg("text", "", ""), "", tr, Latency, lag))
          /\ lastIn' = [op |-> "send", a |-> chat_id, b |-> "", tr |-> tr]
    /\ UNCHANGED deployment

\* the device does something else between two calls
Pause ==
    /\ pc = "loop" /\ lastIn.op = "send" /\ Len(sendLog) < MaxCalls
    /\ \E ms \in Pauses : Commit([Cur EXCEPT !.now = now + ms, !.out = out])
    /\ lastIn' = [op |-> "pause", a |-> "", b |-> "", tr |-> <<>>]
    /\ UNCHANGED deployment

NextSend == Send \/ Pause

SpecSend == InitSend /\ [][NextSend]_vars

\* ------------------------------------------------------------------------
\* The role of a caller on its own: getChatType() applied to every caller
\* under every combination of configured, absent and shared endpoints
\* ------------------------------------------------------------------------
\* identifiers that equal an endpoint, and identifiers that only resemble one
Callers == {Owner, Family, Neighbors, Stranger, "",
            "100", "10010", " 1001", "2002", "-2002 ", "-30030"}

EndpointSamples ==
    {[ProvisionedConfig EXCEPT !.personalChatId = o, !.familiarChatId = f,
                               !.vecinalChatId = v] :
        o \in {"", Owner}, f \in {"", Family, Owner}, v \in {"", Neighbors, Family}}

InitRole ==
    /\ deployment = Quiet
    /\ file = NoFile
    /\ updates = <<>>
    /\ config \in EndpointSamples
    /\ currentState = "NORMAL_OPERATION"
    /\ pc = "check"
    /\ lp = "switch"
    /\ inbox = 0
    /\ editingMode = FALSE /\ editingField = "" /\ editingChatID = ""
    /\ pendingEditValue = "" /\ editingStartTime = 0
    /\ telegramStats = ZeroStats
    /\ lastMessageTime = 0
    /\ bot = FALSE /\ wifi = FALSE
    /\ bleActive = FALSE /\ deviceConnected = FALSE
    /\ bleStatus = "" /\ bleConfigStartTime = 0
    /\ isFirstUpdateAfterBoot = TRUE /\ lastTelegramPoll = 0
    /\ lastHealthCheck = 0 /\ lastReconnectAttempt = 0
    /\ now = 0 /\ stateSince = 0 /\ sendLog = <<>> /\ role = "" /\ wait = NoWait
    /\ out = <<>> /\ events = <<>> /\ route = "none" /\ bootPath = <<>> /\ valid = FALSE
    /\ lastIn = In("power_on", "", "")

\* one call of getChatType()
DeriveRole ==
    /\ pc \in {"check", "checked"}
    /\ \E chat_id \in Callers :
          /\ Commit([Cur EXCEPT !.role = getChatType(config, chat_id), !.pc = "checked"])
          /\ lastIn' = In("getChatType", chat_id, "")
    /\ UNCHANGED deployment

NextRole == DeriveRole

SpecRole == InitRole /\ [][NextRole]_vars

\* ------------------------------------------------------------------------
\* loop() on its own: entered with each value of the enum SystemState in
\* currentState, at power-on time and later
\* ------------------------------------------------------------------------
InitLoop ==
    /\ deployment = Quiet
    /\ file = JsonFile(ProvisionedConfig)
    /\ updates = <<>>
    /\ config = ProvisionedConfig
    /\ currentState \in SystemState
    /\ pc = "loop"
    /\ lp = "switch"
    /\ inbox = 0
    /\ editingMode = FALSE /\ editingField = "" /\ editingChatID = ""
    /\ pendingEditValue = "" /\ editingStartTime = 0
    /\ telegramStats = ZeroStats
    /\ lastMessageTime = 0
    /\ bot \in BOOLEAN /\ wifi \in BOOLEAN
    /\ bleActive = FALSE /\ deviceConnected = FALSE
    /\ bleStatus = "" /\ bleConfigStartTime = 0
    /\ isFirstUpdateAfterBoot = TRUE /\ lastTelegramPoll = 0
    /\ lastHealthCheck = 0 /\ lastReconnectAttempt = 0
    /\ now = 0 /\ stateSince = 0 /\ sendLog = <<>> /\ role = "" /\ wait = NoWait
    /\ out = <<>> /\ events = <<>> /\ route = "none" /\ bootPath = <<>> /\ valid = TRUE
    /\ lastIn = In("power_on", "", "")

NextLoop == Tick \/ LoopSwitch \/ LoopTail

SpecLoop == InitLoop /\ [][NextLoop]_vars

\* ------------------------------------------------------------------------
\* The rate limit on its own, on the 32-bit clock: lastMessageTime anywhere
\* on the clock, the wrap included, the first read of millis() before, at
\* and after the end of the interval, the second read up to MaxLag later
\* ------------------------------------------------------------------------
LastSamples ==
    {U32(0, 0), U32(0, 1499), U32(0, 1500), U32(0, Half - 1), U32(1, 0),
     U32(32767, Half - 1), U32(32768, 0),
     U32(Half - 1, Half - 1 - MESSAGE_INTERVAL), U32(Half - 1, Half - MESSAGE_INTERVAL),
     U32(Half - 1, Half - 1)}

ElapsedSamples ==
    {U32(0, 0), U32(0, 1), U32(0, 750), U32(0, MESSAGE_INTERVAL - 3),
     U32(0, MESSAGE_INTERVAL - 2), U32(0, MESSAGE_INTERVAL - 1),
     U32(0, MESSAGE_INTERVAL), U32(0, MESSAGE_INTERVAL + 1),
     U32(1, 0), U32(Half - 1, Half - 1)}

InitWait ==
    /\ deployment = Quiet
    /\ file = JsonFile(ProvisionedConfig)
    /\ updates = <<>>
    /\ config = ProvisionedConfig
    /\ currentState = "NORMAL_OPERATION"
    /\ pc = "send"
    /\ lp = "switch"
    /\ inbox = 0
    /\ editingMode = FALSE /\ editingField = "" /\ editingChatID = ""
    /\ pendingEditValue = "" /\ editingStartTime = 0
    /\ telegramStats = ZeroStats
    /\ lastMessageTime = 0
    /\ bot = TRUE /\ wifi = TRUE
    /\ bleActive = FALSE /\ deviceConnected = FALSE
    /\ bleStatus = "" /\ bleConfigStartTime = 0
    /\ isFirstUpdateAfterBoot = FALSE /\ lastTelegramPoll = 0
    /\ lastHealthCheck = 0 /\ lastReconnectAttempt = 0
    /\ now = 0 /\ stateSince = 0 /\ sendLog = <<>> /\ role = ""
    /\ wait = NoWait
    /\ out = <<>> /\ events = <<>> /\ route = "none" /\ bootPath = <<>> /\ valid = FALSE
    /\ lastIn = In("power_on", "", "")

\* one evaluation of the rate limit (1348-1349)
ComputeWait ==
    /\ pc \in {"send", "limited"}
    /\ \E last \in LastSamples, d \in ElapsedSamples, lag \in 0..MaxLag :
          LET first == add32(last, d)
              second == add32(first, U32(0, lag))
          IN  /\ wait' = rateLimitDelay(last, first, second)
              /\ lastIn' = [op |-> "rateLimit", a |-> "", b |-> "",
                            last |-> last, first |-> first, second |-> second]
    /\ pc' = "limited"
    /\ UNCHANGED <<config, file, currentState, lp, inbox, updates,
                   editingMode, editingField, editingChatID, pendingEditValue,
                   editingStartTime, telegramStats, lastMessageTime, bot, wifi,
                   bleActive, deviceConnected, bleStatus, bleConfigStartTime,
                   isFirstUpdateAfterBoot, lastTelegramPoll, lastHealthCheck,
                   lastReconnectAttempt, now, out, events, stateSince, sendLog, role,
                   route, bootPath, valid, deployment>>

NextWait == ComputeWait

SpecWait == InitWait /\ [][NextWait]_vars

\* ------------------------------------------------------------------------
\* Terms of the properties
\* ------------------------------------------------------------------------
\* operation-valid: the five required-field predicates
OperationValid(c) ==
    /\ c.deviceName # ""
    /\ Len(c.devicePIN) = 3
    /\ \E i \in 1..3 : c.wifiSSID[i] # ""
    /\ Len(c.telegramToken) >= 40
    /\ c.personalChatId # ""

\* the editing session: mode, field, endpoint, candidate value, open time
Session(s) ==
    <<s.editingMode, s.editingField, s.editingChatID, s.pendingEditValue, s.editingStartTime>>

\* handleTelegramMessage() is about to be called: the for loop over a batch
\* of getUpdates has a message to handle
Serving == pc = "loop" /\ lp = "poll" /\ inbox > 0

\* the config field an edit command names
EditedField(c, command) ==
    CASE command = "/edit_name" -> c.friendlyName
      [] command = "/edit_ssid1" -> c.wifiSSID[1]
      [] command = "/edit_ssid2" -> c.wifiSSID[2]
      [] command = "/edit_ssid3" -> c.wifiSSID[3]
      [] command = "/edit_telegram" -> c.telegramToken
      [] command = "/edit_alert" -> c.alertMsg
      [] command = "/edit_familiar" -> c.familiarChatId
      [] command = "/edit_vecinal" -> c.vecinalChatId
      [] OTHER -> "?"

\* a command as typed, or with this device's name as its target
Addressed(commands) == commands \cup {t \o "," \o ChipName : t \in commands}
\* the same commands with another device's name as their target
Misaddressed(commands) == {t \o "," \o OtherDevice : t \in commands}

Commands == OwnerOnlyCommands \cup {"/photo", "/status", "/menu", "/info", "/help"}

\* ------------------------------------------------------------------------
\* Properties
\* ------------------------------------------------------------------------

\* C1: when the session's endpoint sends the confirm command while a
\* candidate value of 1 to 100 characters is stored and the session has not
\* timed out, the config field of the session equals the candidate,
\* configVersion grew by exactly 1, the config was persisted and the
\* session is closed.
C1_ConfirmApplies ==
    [][(/\ lastIn'.op = "msg"
        /\ editingMode /\ lastIn'.a = editingChatID
        /\ extractCommand(lastIn'.b) = "/confirm_edit"
        /\ Len(pendingEditValue) >= 1 /\ Len(pendingEditValue) <= 100
        /\ elapsed(now, editingStartTime) <= EDITING_TIMEOUT)
       => (/\ EditedField(config', editingField) = pendingEditValue
           /\ config'.configVersion = config.configVersion + 1
           /\ file' = JsonFile(config')
           /\ ~editingMode')]_vars

\* C2: a confirm or cancel from an endpoint that does not own an open
\* session (any endpoint when no session is open) is answered with the one
\* reply "no active session", and the session (field, endpoint, candidate,
\* open time), the config and the stored file stay as they were.
C2_ForeignConfirmCancelFails ==
    Serving =>
        \A chat_id \in Chats, message \in Addressed({"/confirm_edit", "/cancel"}) :
            (~editingMode \/ chat_id # editingChatID) =>
                \A env \in EnvsOf(message) :
                    LET s == handleTelegramMessage(Cur, message, chat_id, env)
                    IN  /\ Len(s.out) = 1
                        /\ s.out[1].to = chat_id
                        /\ s.out[1].text.kind = "no_session"
                        /\ Session(s) = Session(Cur)
                        /\ s.config = config
                        /\ s.file = file

C2_Witness ==
    /\ lastIn = In("msg", Family, "/confirm_edit")
    /\ editingMode /\ editingChatID = Owner
    /\ Len(out) = 1 /\ out[1].text.kind = "no_session" /\ out[1].to = Family

\* C3: while a session is open, every message from its endpoint (free text,
\* a command, a command with a device name) goes to handleEditingInput: it
\* is answered by the editing dialogue only, no command runs (config, file,
\* lifecycle state and restart flag are untouched), and within the timeout
\* a text of 1 to 100 characters becomes the candidate value.
C3_OwnMessagesGoToEditing ==
    (Serving /\ editingMode) =>
        \A message \in AllTexts : \A env \in EnvsOf(message) :
            LET s == handleTelegramMessage(Cur, message, editingChatID, env)
            IN  /\ s.route = "editing"
                /\ Len(s.out) = 1
                /\ s.out[1].text.kind \in {"edit_timeout", "empty_input", "input_too_long", "edit_confirm"}
                /\ s.config = config /\ s.file = file
                /\ s.currentState = currentState /\ s.pc = pc
                /\ (/\ elapsed(now, editingStartTime) <= EDITING_TIMEOUT
                    /\ Len(message) >= 1 /\ Len(message) <= 100)
                   => (s.editingMode /\ s.pendingEditValue = message)

C3_Witness ==
    /\ lastIn = In("msg", Owner, "/confirm_edit")
    /\ route = "editing"
    /\ editingMode /\ editingChatID = Owner /\ pendingEditValue = "/confirm_edit"

\* C4: while a session is open for one endpoint, a message from any other
\* endpoint gets the replies and has the effect on config, file, lifecycle
\* state and restart it would have with no session open, and the session
\* (field, endpoint, candidate, open time) stays as it was.
C4_OtherEndpointsUnaffected ==
    (Serving /\ editingMode) =>
        \A chat_id \in Chats \ {editingChatID}, message \in AllTexts :
            \A env \in EnvsOf(message) :
                LET with == handleTelegramMessage(Cur, message, chat_id, env)
                    without == handleTelegramMessage(resetEditingState(Cur), message, chat_id, env)
                IN  /\ with.out = without.out
                    /\ with.config = without.config
                    /\ with.file = without.file
                    /\ with.currentState = without.currentState
                    /\ with.pc = without.pc
                    /\ with.route = "exact"
                    /\ Session(with) = Session(Cur)

C4_Witness ==
    /\ lastIn = In("msg", Stranger, "/cancel")
    /\ route = "exact"
    /\ editingMode /\ editingChatID = Owner /\ editingField = "/edit_familiar"
    /\ Len(out) = 1 /\ out[1].to = Stranger

\* C5 as stated: a command addressed to another device produces no reply
\* and changes neither config, session nor lifecycle state, from every
\* endpoint and in every session state.
C5_MisaddressedIgnoredAlways ==
    Serving =>
        \A chat_id \in Chats, message \in Misaddressed(Commands) :
            \A env \in EnvsOf(message) :
                LET s == handleTelegramMessage(Cur, message, chat_id, env)
                IN  /\ s.out = <<>>
                    /\ s.config = config /\ s.file = file
                    /\ Session(s) = Session(Cur)
                    /\ s.currentState = currentState /\ s.pc = pc

\* C5: a command addressed to another device produces no reply and changes
\* neither config, session nor lifecycle state, unless it comes from the
\* endpoint of an open session (C3 then makes it editing input).
C5_MisaddressedIgnored ==
    Serving =>
        \A chat_id \in Chats, message \in Misaddressed(Commands) :
            ~(editingMode /\ chat_id = editingChatID) =>
                \A env \in EnvsOf(message) :
                    LET s == handleTelegramMessage(Cur, message, chat_id, env)
                    IN  /\ s.out = <<>>
                        /\ s.config = config /\ s.file = file
                        /\ Session(s) = Session(Cur)
                        /\ s.currentState = currentState /\ s.pc = pc

C5_Witness ==
    /\ lastIn = In("msg", Owner, "/config," \o OtherDevice)
    /\ route = "exact" /\ out = <<>> /\ ~editingMode
    /\ telegramStats.commandsProcessed = 1

\* the replies that tell a caller the command is not for them
DenialKinds == {"config_denied", "restart_denied", "no_session"}

\* C6: an owner-only command (config menu, edit, confirm, cancel, restart,
\* save-and-restart) from an endpoint that is not the owner changes no
\* config field, opens no session and restarts nothing, and a family
\* endpoint is answered with a denial.
C6_OwnerOnlyCommandsDenied ==
    Serving =>
        \A chat_id \in Chats, message \in Addressed(OwnerOnlyCommands) :
            (getChatType(config, chat_id) # "personal"
                 /\ ~(editingMode /\ chat_id = editingChatID)) =>
                \A env \in EnvsOf(message) :
                    LET s == handleTelegramMessage(Cur, message, chat_id, env)
                    IN  /\ s.config = config
                        /\ Session(s) = Session(Cur)
                        /\ s.pc = pc
                        /\ getChatType(config, chat_id) = "familiar" =>
                              (Len(s.out) = 1 /\ s.out[1].text.kind \in DenialKinds)

\* C7: whenever the loop runs in NORMAL_OPERATION the config is
\* operation-valid.
C7_NormalImpliesValid ==
    (pc = "loop" /\ currentState = "NORMAL_OPERATION") => OperationValid(config)

\* C8: setup() leaves the device in NORMAL_OPERATION exactly when the
\* loaded config is operation-valid; otherwise it went through NEED_CONFIG,
\* started BLE and the loop starts in BLE_CONFIG_PHASE; without a readable
\* config file the defaults are loaded and the loop starts in
\* BLE_CONFIG_PHASE.
C8_BootChoosesState ==
    lastIn.op = "setup" =>
        /\ pc = "loop"
        /\ \E pin \in Pins : config = loadConfig(file, pin)
        /\ IF OperationValid(config)
           THEN currentState = "NORMAL_OPERATION" /\ bootPath = <<"NORMAL_OPERATION">>
           ELSE /\ currentState = "BLE_CONFIG_PHASE"
                /\ bootPath = <<"NEED_CONFIG", "BLE_CONFIG_PHASE">>
                /\ bleActive
        /\ file.kind # "json" => currentState = "BLE_CONFIG_PHASE"

C8_Witness ==
    /\ lastIn.op = "setup"
    /\ file = NoFile
    /\ currentState = "BLE_CONFIG_PHASE" /\ bleActive
    /\ config = loadDefaultConfig("998")

\* C9: hasValidConfig() returns true exactly when the five predicates hold:
\* identity non-empty, PIN of length 3, one of the three network names
\* non-empty, token of at least 40 characters, owner endpoint non-empty.
C9_ValidIffFivePredicates ==
    pc = "checked" => (valid <=> OperationValid(config))

C9_Witness ==
    /\ pc = "checked" /\ valid
    /\ Len(config.telegramToken) = 40
    /\ config.wifiSSID = <<"", "", "Home">>

\* the config field a payload key is copied to, and its capacity
KeyField(c, k) ==
    CASE k = "telegramToken" -> c.telegramToken
      [] k = "wifiSSID" -> c.wifiSSID[1]
      [] k = "wifiPassword" -> c.wifiPassword[1]
      [] k = "wifiSSID2" -> c.wifiSSID[2]
      [] k = "wifiPassword2" -> c.wifiPassword[2]
      [] k = "wifiSSID3" -> c.wifiSSID[3]
      [] k = "wifiPassword3" -> c.wifiPassword[3]
      [] k = "friendlyName" -> c.friendlyName
      [] OTHER -> c.alertMsg

KeyCapacity(k) ==
    CASE k = "telegramToken" -> SZ_telegramToken - 1
      [] k = "friendlyName" -> SZ_friendlyName - 1
      [] k = "alertMsg" -> SZ_alertMsg - 1
      [] OTHER -> SZ_wifi - 1

\* C10: a parsed payload with the three required keys is accepted: every
\* key it has is copied to its field (as much as the field holds), the
\* fields of absent keys keep their value, isConfigured is set,
\* configVersion grew by exactly 1 and the config was saved (or the save
\* itself failed).
C10_RequiredKeysAccepted ==
    [][(/\ lastIn'.op = "ble_config" /\ lastIn'.a = "json"
        /\ RequiredKeys \subseteq DOMAIN lastIn'.payload.doc)
       => (/\ \A k \in DOMAIN PayloadValues :
                 KeyField(config', k) =
                     IF k \in DOMAIN lastIn'.payload.doc
                     THEN strncpy(lastIn'.payload.doc[k], KeyCapacity(k))
                     ELSE KeyField(config, k)
           /\ config'.isConfigured
           /\ config'.configVersion = config.configVersion + 1
           /\ file' \in {JsonFile(config'), file, CorruptFile})]_vars

\* C11 as stated: every payload that cannot be parsed (the empty one
\* included) or that lacks a required key changes neither config nor file,
\* restarts nothing, leaves the device in BLE_CONFIG_PHASE and sets the
\* status to the invalid-json code, respectively the missing-fields code.
C11_BadPayloadRejectedAlways ==
    [][(/\ lastIn'.op = "ble_config"
        /\ \/ lastIn'.a \in {"empty", "malformed"}
           \/ ~(RequiredKeys \subseteq DOMAIN lastIn'.payload.doc))
       => (/\ config' = config /\ file' = file
           /\ pc' = "loop"
           /\ currentState = "BLE_CONFIG_PHASE" /\ currentState' = "BLE_CONFIG_PHASE"
           /\ bleStatus' = IF lastIn'.a = "json" THEN "config_error_missing_fields"
                           ELSE "config_error_invalid_json")]_vars

\* C11: a non-empty payload that cannot be parsed, or a parsed one that
\* lacks a required key, changes neither config nor file, restarts nothing,
\* leaves the device in BLE_CONFIG_PHASE and sets the status to the
\* invalid-json code, respectively the missing-fields code; an empty write
\* changes nothing at all, the status included.
C11_BadPayloadRejected ==
    [][(/\ lastIn'.op = "ble_config"
        /\ \/ lastIn'.a \in {"empty", "malformed"}
           \/ ~(RequiredKeys \subseteq DOMAIN lastIn'.payload.doc))
       => (/\ config' = config /\ file' = file
           /\ pc' = "loop"
           /\ currentState = "BLE_CONFIG_PHASE" /\ currentState' = "BLE_CONFIG_PHASE"
           /\ bleStatus' = CASE lastIn'.a = "json" -> "config_error_missing_fields"
                              [] lastIn'.a = "malformed" -> "config_error_invalid_json"
                              [] OTHER -> bleStatus)]_vars

C11_Witness ==
    /\ lastIn.op = "ble_config" /\ lastIn.a = "json"
    /\ DOMAIN lastIn.payload.doc = {"telegramToken", "wifiSSID"}
    /\ bleStatus = "config_error_missing_fields"
    /\ pc = "loop" /\ currentState = "BLE_CONFIG_PHASE"
    /\ config.configVersion = 1 /\ ~config.isConfigured


\* C12: a configuration write that is accepted (the version goes up by one) saves the
\* configuration, then puts the success value on the status channel, then waits, then
\* restarts, in that order and in the same operation; setup() is what runs next, so
\* loop() never sees the provisioning phase with the new configuration.
C12_IntakeThenRestart ==
    [][(/\ lastIn'.op = "ble_config"
        /\ config'.configVersion = config.configVersion + 1)
       => (/\ events' = <<"saveConfig", "status config_received_restarting",
                          "delay 2000", "delay 1000", "restart">>
           /\ bleStatus' = "config_received_restarting"
           /\ config'.isConfigured
           /\ ~bleActive'
           /\ pc' = "setup")]_vars

C12_Witness ==
    /\ lastIn.op = "ble_config" /\ lastIn.a = "json"
    /\ config.configVersion = 2 /\ config.isConfigured
    /\ file = JsonFile(config)
    /\ events[Len(events)] = "restart"
    /\ pc = "setup"


\* C13: an iteration of loop() that finds the device in the provisioning phase more than
\* BLE_SESSION_TIMEOUT after it entered that phase restarts the device, whatever was
\* written or typed in between; setup(), with its evaluation of the stored
\* configuration, is what runs next.
C13_ProvisioningTimesOut ==
    [][(/\ lastIn'.op = "switch"
        /\ currentState = "BLE_CONFIG_PHASE"
        /\ now - stateSince > BLE_SESSION_TIMEOUT)
       => (/\ events' = <<"restart">>
           /\ pc' = "setup"
           /\ config' = config /\ file' = file)]_vars

C13_Witness ==
    /\ lastIn.op = "switch"
    /\ currentState = "BLE_CONFIG_PHASE"
    /\ now - stateSince > BLE_SESSION_TIMEOUT
    /\ events = <<"restart">>
    /\ pc = "setup"


\* C14: configVersion never goes down from one step to the next, the step from the
\* value in memory before a restart to the value setup() loads after it included, unless
\* setup() finds no readable file and reloads the defaults; and every accepted
\* configuration write makes it larger.
C14_VersionNeverDecreases ==
    [][/\ \/ config'.configVersion >= config.configVersion
          \/ lastIn'.op = "setup" /\ file.kind # "json"
       /\ (lastIn'.op = "ble_config" /\ bleStatus' = "config_received_restarting"
              /\ lastIn'.a = "json")
          => config'.configVersion > config.configVersion]_vars


\* C15: a command that opens an editing session opens one only for the owner and only
\* when no session is open; while a session is open (and has not run out of time) such
\* a command, from any endpoint, is answered with a refusal and leaves the field, the
\* endpoint, the candidate value and the open time of the session as they were.
C15_SecondOpenRejected ==
    Serving =>
        \A chat_id \in Chats, message \in Addressed(EditCommands) :
            \A env \in EnvsOf(message) :
                LET s == handleTelegramMessage(Cur, message, chat_id, env)
                    opened == /\ s.editingMode
                              /\ \/ ~editingMode
                                 \/ s.editingField # editingField
                                 \/ s.editingStartTime # editingStartTime
                IN  /\ opened => (getChatType(config, chat_id) = "personal" /\ ~editingMode)
                    /\ (editingMode /\ elapsed(now, editingStartTime) <= EDITING_TIMEOUT)
                          => /\ Session(s) = Session(Cur)
                             /\ Len(s.out) = 1
                             /\ s.out[1].text.kind \in DenialKinds


\* C16: when the endpoint of an open session that has not run out of time sends the
\* cancel command, with or without a candidate value stored, the session is closed, the
\* candidate value is gone, the configuration (its version included) and the stored
\* file are as before, and the cancellation notice goes to that endpoint.
C16_OwnCancelCloses ==
    [][(/\ lastIn'.op = "msg"
        /\ editingMode /\ lastIn'.a = editingChatID
        /\ extractCommand(lastIn'.b) = "/cancel"
        /\ elapsed(now, editingStartTime) <= EDITING_TIMEOUT)
       => (/\ ~editingMode'
           /\ pendingEditValue' = ""
           /\ config' = config /\ file' = file
           /\ \E i \in 1..Len(out') :
                 out'[i].to = lastIn'.a /\ out'[i].text.kind = "cancelled")]_vars


\* C17: once more than EDITING_TIMEOUT has passed since a session was opened, whatever
\* its endpoint sends next (free text, a confirm, any command) closes the session and is
\* answered with the timeout notice alone: the candidate value is gone, the text is
\* not stored as a candidate, no command runs, and the configuration, the stored file
\* and the lifecycle state are as before.
C17_ExpiredSessionCloses ==
    (Serving /\ editingMode /\ elapsed(now, editingStartTime) > EDITING_TIMEOUT) =>
        \A message \in AllTexts : \A env \in EnvsOf(message) :
            LET s == handleTelegramMessage(Cur, message, editingChatID, env)
            IN  /\ ~s.editingMode
                /\ s.pendingEditValue = "" /\ s.editingField = "" /\ s.editingChatID = ""
                /\ Len(s.out) = 1
                /\ s.out[1].to = editingChatID
                /\ s.out[1].text.kind = "edit_timeout"
                /\ s.config = config /\ s.file = file
                /\ s.currentState = currentState /\ s.pc = pc
                /\ s.events = <<>>

C17_Witness ==
    /\ lastIn = In("msg", Owner, "/confirm_edit")
    /\ Len(out) = 1 /\ out[1].text.kind = "edit_timeout"
    /\ ~editingMode /\ pendingEditValue = ""
    /\ config = ProvisionedConfig /\ file = JsonFile(ProvisionedConfig)
    /\ pc = "loop"


\* C18: a call of safeSendMessage with the bot created, in which the first, second or
\* third call of the transport succeeds, returns true; totalMessagesSent goes up by
\* exactly one, totalFailedSends and the last error stay, lastSuccessfulSend and
\* lastMessageTime are the time of return, and the successful call of the transport is
\* the last one made.
C18_SendSucceedsWithinRetries ==
    [][(/\ lastIn'.op = "send" /\ bot /\ pc' = "loop"
        /\ \E k \in 1..MAX_TELEGRAM_RETRIES : lastIn'.tr[k])
       => LET c == sendLog'[Len(sendLog')]
              k == CHOOSE i \in 1..MAX_TELEGRAM_RETRIES :
                       lastIn'.tr[i] /\ \A j \in 1..(i - 1) : ~lastIn'.tr[j]
          IN  /\ Len(sendLog') = Len(sendLog) + 1
              /\ c.ret
              /\ telegramStats'.totalMessagesSent = telegramStats.totalMessagesSent + 1
              /\ telegramStats'.totalFailedSends = telegramStats.totalFailedSends
              /\ telegramStats'.lastError = telegramStats.lastError
              /\ telegramStats'.lastErrorTime = telegramStats.lastErrorTime
              /\ telegramStats'.lastSuccessfulSend = c.returned
              /\ lastMessageTime' = c.returned
              /\ Len(c.attempts) = k
              /\ c.attempts[k].ok
              /\ \A j \in 1..(k - 1) : ~c.attempts[j].ok]_vars

C18_Witness ==
    /\ lastIn.op = "send" /\ lastIn.tr = <<FALSE, FALSE, TRUE>>
    /\ Len(sendLog) = 1 /\ sendLog[1].ret
    /\ Len(sendLog[1].attempts) = 3
    /\ telegramStats.totalMessagesSent = 1 /\ telegramStats.totalFailedSends = 0
    /\ lastMessageTime = now /\ now > 0


\* C20: of two calls of safeSendMessage that follow each other, to the same chat or to
\* different ones, the first call of the transport in the second starts at least
\* MESSAGE_INTERVAL after the first call returned, whether that one returned true or
\* false.
C20_SendsSpaced ==
    \A i \in 1..(Len(sendLog) - 1) :
        (sendLog[i].attempts # <<>> /\ sendLog[i + 1].attempts # <<>>)
            => sendLog[i + 1].attempts[1].at >= sendLog[i].returned + MESSAGE_INTERVAL


\* what a failed delivery must leave alone: configuration, stored file, editing
\* session, lifecycle state, and whether and how the device restarts
Lifecycle(s) ==
    [config |-> s.config, file |-> s.file, session |-> Session(s),
     currentState |-> s.currentState, pc |-> s.pc, events |-> s.events]

\* C19: a call of safeSendMessage whose three transport calls all fail returns false
\* after the third, adds exactly one to totalFailedSends, sets lastError and
\* lastErrorTime, and leaves totalMessagesSent, the last success and the rate-limit
\* baseline alone; and every caller (a chat command, the startup alerts of setup(), a
\* console command) ends with the same configuration, file, editing session, lifecycle
\* state and restart decision as when its deliveries succeed.
C19_FailedSendIsNotFatal ==
    /\ (pc = "loop" /\ bot) =>
          \A chat_id \in Chats, lag \in 0..MaxLag :
              rateLimit(Cur, lag).pc = "loop" =>
                  LET t == safeSendMessageTimed(Cur, chat_id, Msg("text", "", ""), "",
                                                <<FALSE, FALSE, FALSE>>, Latency, lag)
                      c == safeSendMessage(Cur, chat_id, Msg("text", "", ""), "", FALSE)
                      call == t.sendLog[Len(t.sendLog)]
                  IN  /\ ~call.ret
                      /\ Len(call.attempts) = MAX_TELEGRAM_RETRIES
                      /\ \A k \in 1..MAX_TELEGRAM_RETRIES : ~call.attempts[k].ok
                      /\ t.telegramStats =
                             [telegramStats EXCEPT !.totalFailedSends = @ + 1,
                                                   !.lastError = "Message send failure to " \o chat_id,
                                                   !.lastErrorTime = call.returned]
                      /\ t.lastMessageTime = lastMessageTime
                      /\ [Lifecycle(t) EXCEPT !.events = <<>>] = Lifecycle(Cur)
                      /\ c.telegramStats = [t.telegramStats EXCEPT !.lastErrorTime = now]
                      /\ c.lastMessageTime = lastMessageTime
                      /\ c.out = t.out
                      /\ Lifecycle(c) = Lifecycle(Cur)
    /\ Serving =>
          \A chat_id \in Chats, message \in AllTexts :
          \A cam \in IF extractCommand(message) = "/photo" THEN CamOutcomes ELSE {"photo_ok"} :
              LET env == [DefaultEnv EXCEPT !.cam = cam]
                  g == Lifecycle(handleTelegramMessage(Cur, message, chat_id, env))
              IN  \A tx \in {<<a, b, TRUE>> : a, b \in BOOLEAN} \ {AllOk} :
                      LET f == handleTelegramMessage(Cur, message, chat_id,
                                                     [env EXCEPT !.tx = tx])
                      IN  Lifecycle(f) = g
    /\ pc = "setup" =>
          \A pin \in Pins, wifiOk \in BOOLEAN, tx \in [1..3 -> BOOLEAN] :
              Lifecycle(setup(BootState(file), pin, wifiOk, tx))
                  = Lifecycle(setup(BootState(file), pin, wifiOk, AllOk))
    /\ (pc = "loop" /\ lp = "tail") =>
          \A command \in {"test_photo", "send hi"}, tx \in [1..3 -> BOOLEAN] :
          \A cam \in IF command = "test_photo" THEN CamOutcomes ELSE {"photo_ok"},
             ub \in IF command = "test_photo" THEN UbOutcomes ELSE {"crash"} :
              LET env == [DefaultEnv EXCEPT !.cam = cam, !.ub = ub]
              IN  Lifecycle(handleSerialCommands(Cur, command, [env EXCEPT !.tx = tx]))
                     = Lifecycle(handleSerialCommands(Cur, command, env))

C19_Witness ==
    /\ lastIn.op = "msg"
    /\ Len(out) >= 1 /\ ~out[1].ok
    /\ telegramStats.totalFailedSends = 1 /\ telegramStats.totalMessagesSent = 3
    /\ telegramStats.lastError = "Message send failure to " \o out[1].to
    /\ telegramStats.lastErrorTime = now
    /\ pc = "loop" /\ currentState = "NORMAL_OPERATION"
    /\ config = ProvisionedConfig


\* C21: a callback of the BLE stack (client connect, write of the configuration
\* characteristic, write of the command characteristic) changes no field of the
\* configuration, of the stored file or of the editing session and does not restart the
\* device; it leaves that to loop().
C21_CallbacksOnlySignal ==
    [][(lastIn'.op \in {"ble_connect", "ble_disconnect", "ble_config", "ble_command"})
       => (/\ config' = config
           /\ file' = file
           /\ <<editingMode', editingField', editingChatID', pendingEditValue',
                editingStartTime'>>
                 = <<editingMode, editingField, editingChatID, pendingEditValue,
                     editingStartTime>>
           /\ pc' = pc
           /\ "restart" \notin {events'[i] : i \in 1..Len(events')})]_vars


\* C22: getChatType gives a caller the role personal, familiar or vecinal only when its
\* identifier is, character for character, the configured endpoint of that role, and
\* the role unknown exactly when it equals none of the three; an identifier that only
\* resembles an endpoint (a prefix, an extension, a missing sign, a space) is unknown.
C22_RoleByExactMatch ==
    pc = "checked" =>
        LET chat_id == lastIn.a
        IN  /\ role \in {"personal", "familiar", "vecinal", "unknown"}
            /\ role = "personal" => chat_id = config.personalChatId
            /\ role = "familiar" => chat_id = config.familiarChatId
            /\ role = "vecinal" => chat_id = config.vecinalChatId
            /\ role = "unknown" <=>
                  chat_id \notin {config.personalChatId, config.familiarChatId,
                                  config.vecinalChatId}

C22_Witness ==
    /\ pc = "checked"
    /\ lastIn = In("getChatType", "10010", "")
    /\ config.personalChatId = Owner
    /\ role = "unknown"


\* the states of an editing session as the specification names them
SessionState(s) ==
    IF ~s.editingMode THEN "IDLE"
    ELSE IF s.pendingEditValue = "" THEN "AWAITING_VALUE"
    ELSE "AWAITING_CONFIRMATION"

\* values a user may submit: empty, one character, a command, and the lengths on both
\* sides of the limit
Values == {"", "x", "Intruder!", "/menu", Rep("v", MAX_INPUT_LEN - 1), Rep("v", MAX_INPUT_LEN),
           Long101, Rep("v", MAX_INPUT_LEN + 2)}

\* C23: in AWAITING_VALUE (session open, no candidate, not run out of time) a text of the
\* session's endpoint that is empty or longer than MAX_INPUT_LEN is answered with an
\* error and the session stays as it is, without a candidate; every other text becomes
\* the candidate, the session is in AWAITING_CONFIRMATION and the confirmation prompt is
\* sent; the configuration and the stored file are the same in both cases.
C23_ValueChecked ==
    (Serving /\ SessionState(Cur) = "AWAITING_VALUE"
       /\ elapsed(now, editingStartTime) <= EDITING_TIMEOUT) =>
        \A value \in Values : \A tx \in Tx :
            LET s == handleTelegramMessage(Cur, value, editingChatID,
                                           [DefaultEnv EXCEPT !.tx = tx])
            IN  /\ s.config = config /\ s.file = file
                /\ Len(s.out) = 1 /\ s.out[1].to = editingChatID
                /\ IF Len(value) = 0 \/ Len(value) > MAX_INPUT_LEN
                   THEN /\ s.out[1].text.kind
                              = (IF Len(value) = 0 THEN "empty_input" ELSE "input_too_long")
                        /\ Session(s) = Session(Cur)
                        /\ SessionState(s) = "AWAITING_VALUE"
                   ELSE /\ s.out[1].text.kind = "edit_confirm"
                        /\ s.out[1].text.b = value
                        /\ s.pendingEditValue = value
                        /\ SessionState(s) = "AWAITING_CONFIRMATION"
                        /\ Session(s) = Session([Cur EXCEPT !.pendingEditValue = value])

C23_Witness ==
    /\ lastIn = In("msg", Owner, Long101)
    /\ Len(out) = 1 /\ out[1].text.kind = "input_too_long"
    /\ editingMode /\ editingChatID = Owner /\ pendingEditValue = ""
    /\ config = ProvisionedConfig


\* C24: in AWAITING_CONFIRMATION (a candidate is stored, the session has not run out of
\* time) no text of the session's endpoint replaces the stored candidate.
C24_CandidateKept ==
    (Serving /\ SessionState(Cur) = "AWAITING_CONFIRMATION"
       /\ elapsed(now, editingStartTime) <= EDITING_TIMEOUT) =>
        \A value \in Values : \A tx \in Tx :
            LET s == handleTelegramMessage(Cur, value, editingChatID,
                                           [DefaultEnv EXCEPT !.tx = tx])
            IN  s.editingMode => s.pendingEditValue = pendingEditValue


\* C25: a call of safeSendMessage with the bot created makes one, two or three calls of
\* the transport and returns; every call but the last has failed, and fewer than three
\* are made only when the last succeeded; the second call starts 500 ms and the third
\* 1000 ms after the one before it returned; the first starts with no retry delay, as
\* soon as the rate limiter lets the call go on.
C25_BoundedRetriesWithBackoff ==
    [][(lastIn'.op = "send" /\ bot /\ pc' = "loop")
       => LET c == sendLog'[Len(sendLog')]
              n == Len(c.attempts)
          IN  /\ Len(sendLog') = Len(sendLog) + 1
              /\ n \in 1..3
              /\ \A k \in 1..(n - 1) : ~c.attempts[k].ok
              /\ n < 3 => c.attempts[n].ok
              /\ c.ret = c.attempts[n].ok
              /\ c.attempts[1].at = IF now - lastMessageTime < 1500
                                    THEN lastMessageTime + 1500 ELSE now
              /\ \A k \in 1..(n - 1) :
                    c.attempts[k + 1].at = c.attempts[k].at + Latency + 500 * k
              /\ c.returned = c.attempts[n].at + Latency
              /\ now' = c.returned]_vars

C25_Witness ==
    /\ lastIn.op = "send" /\ lastIn.tr = <<FALSE, FALSE, FALSE>>
    /\ Len(sendLog) = 1 /\ ~sendLog[1].ret
    /\ Len(sendLog[1].attempts) = 3
    /\ sendLog[1].attempts[1].at = 5000
    /\ sendLog[1].attempts[2].at = 5000 + Latency + 500
    /\ sendLog[1].attempts[3].at = 5000 + 2 * Latency + 1500
    /\ events = <<"delay 500", "delay 1000">>


\* C26 as stated: a step that takes the lifecycle state from NORMAL_OPERATION to another
\* value is the setup() that follows a restart; no timer and no operation does it.
C26_NormalPersistsAlways ==
    [][(currentState = "NORMAL_OPERATION" /\ currentState' # "NORMAL_OPERATION")
       => pc = "setup"]_vars

\* C26: a step that takes the lifecycle state from NORMAL_OPERATION to another value is
\* the setup() that follows a restart, or the console command ble_start, which puts the
\* device into BLE_CONFIG_PHASE without a restart; no timer, chat command, BLE event
\* or other console command does it.
C26_NormalPersists ==
    [][(currentState = "NORMAL_OPERATION" /\ currentState' # "NORMAL_OPERATION")
       => \/ pc = "setup"
          \/ /\ lastIn' = In("tail", "ble_start", "")
             /\ currentState' = "BLE_CONFIG_PHASE"
             /\ pc' = "loop" /\ bleActive']_vars

C26_Witness ==
    /\ lastIn = In("tail", "ble_start", "")
    /\ currentState = "BLE_CONFIG_PHASE" /\ stateSince = now
    /\ pc = "loop" /\ bot /\ bleActive
    /\ config = ProvisionedConfig
    /\ "restart" \notin {events[i] : i \in 1..Len(events)}


C29_ConfigFrame ==
    [][(config' # config /\ lastIn'.op # "setup")
       => (/\ \/ lastIn'.op = "ble_config"
              \/ lastIn'.op = "msg" /\ lastIn'.b = "/confirm_edit"
           /\ "saveConfig" \in {events'[i] : i \in 1..Len(events')})]_vars


\* C30: when saveConfig fails (the file cannot be opened, or the write is
\* short) in an intake that passed validation or in a confirm of a stored
\* candidate, the configuration in memory holds the new values with
\* configVersion one higher, nothing is rolled back, and the operation ends
\* as with a working store: status "config_received_restarting" and a
\* restart for the intake; the "updated" reply and a closed session for the
\* confirm.
C30_PersistFailureKeepsSuccess ==
    /\ (pc = "loop" /\ bleActive /\ deviceConnected) =>
          \A payload \in Payloads, ub \in UbOutcomes :
              LET ok == ConfigCharacteristic_onWrite(Cur, payload,
                            [DefaultEnv EXCEPT !.ub = ub])
              IN  "saveConfig" \in {ok.events[i] : i \in 1..Len(ok.events)} =>
                      \A fs \in FsOutcomes \ {"ok"} :
                          LET t == ConfigCharacteristic_onWrite(Cur, payload,
                                       [DefaultEnv EXCEPT !.fs = fs, !.ub = ub])
                          IN  /\ t.config = ok.config
                              /\ t.config.configVersion = config.configVersion + 1
                              /\ t.config.isConfigured
                              /\ t.file # JsonFile(t.config)
                              /\ t.bleStatus = "config_received_restarting"
                              /\ t.pc = "setup"
                              /\ t.events # <<>> /\ t.events[Len(t.events)] = "restart"
    /\ (/\ Serving /\ editingMode
        /\ Len(pendingEditValue) >= 1 /\ Len(pendingEditValue) <= 100
        /\ elapsed(now, editingStartTime) <= EDITING_TIMEOUT) =>
          \A fs \in FsOutcomes \ {"ok"} :
              LET t == handleTelegramMessage(Cur, "/confirm_edit", editingChatID,
                           [DefaultEnv EXCEPT !.fs = fs])
              IN  /\ EditedField(t.config, editingField) = pendingEditValue
                  /\ t.config.configVersion = config.configVersion + 1
                  /\ t.file # JsonFile(t.config)
                  /\ \E i \in 1..Len(t.out) : t.out[i].text.kind = "updated"
                  /\ ~t.editingMode


\* the callback commands of the buttons of a main-menu keyboard
Buttons(keyboard) ==
    IF keyboard = "main_full"
    THEN {"/photo", "/status", "/config", "/restart", "/menu", "/info"}
    ELSE IF keyboard = "main_reduced"
    THEN {"/photo", "/status", "/menu", "/info"}
    ELSE {}

\* C31: the main menu sent to the family, the neighbourhood or an unknown
\* endpoint carries only the buttons photo, status, menu and info, never
\* config or restart; the menu sent to the owner carries all six.
C31_MenuByRole ==
    (Serving /\ bot /\ ~editingMode) =>
        \A chat_id \in Chats, message \in Addressed({"/menu"}) :
            LET t == handleTelegramMessage(Cur, message, chat_id, DefaultEnv)
                menus == {i \in 1..Len(t.out) : t.out[i].text.kind = "main_menu"}
            IN  /\ menus # {}
                /\ \A i \in menus :
                      /\ t.out[i].to = chat_id
                      /\ IF chat_id = config.personalChatId
                         THEN Buttons(t.out[i].kb)
                                = {"/photo", "/status", "/config", "/restart", "/menu", "/info"}
                         ELSE Buttons(t.out[i].kb) = {"/photo", "/status", "/menu", "/info"}


\* C32: in NORMAL_OPERATION with the network gone (never connected at boot, or
\* lost since), once a connection attempt can succeed again the retry of
\* loop() (every 30 s) reconnects without a restart, and with the connection
\* back an iteration of loop() whose poll interval has elapsed polls the
\* server again.
C32_PollingResumes ==
    (pc = "loop" /\ lp = "switch" /\ currentState = "NORMAL_OPERATION") =>
        /\ (/\ ~wifi /\ canConnect(config)
            /\ elapsed(now, lastReconnectAttempt) > RECONNECT_INTERVAL) =>
              LET t == loopSwitch(Cur, 0, DefaultEnv)
              IN  t.wifi /\ t.pc = "loop" /\ t.currentState = "NORMAL_OPERATION"
        /\ (/\ wifi
            /\ ~(isFirstUpdateAfterBoot /\ now < FIRST_BOOT_PROTECTION)
            /\ elapsed(now, lastTelegramPoll) >=
                  (IF editingMode THEN EDITING_POLL_INTERVAL ELSE POLL_INTERVAL)) =>
              \A n \in 0..MaxBatch :
                  n <= Len(updates) =>
                      LET t == loopSwitch(Cur, n, DefaultEnv)
                      IN  /\ t.telegramStats.pollCount = telegramStats.pollCount + 1
                          /\ t.lastTelegramPoll = now
                          /\ t.pc = "loop"


\* C33: in every step other than setup() each counter of telegramStats
\* (totalMessagesSent, totalFailedSends, pollCount, commandsProcessed) is at
\* least what it was; only setup(), which follows a restart, starts them
\* again from zero.
C33_CountersMonotonic ==
    [][/\ lastIn'.op # "setup" =>
            /\ telegramStats'.totalMessagesSent >= telegramStats.totalMessagesSent
            /\ telegramStats'.totalFailedSends >= telegramStats.totalFailedSends
            /\ telegramStats'.pollCount >= telegramStats.pollCount
            /\ telegramStats'.commandsProcessed >= telegramStats.commandsProcessed
       /\ lastIn'.op = "setup" =>
            /\ pc = "setup"
            /\ telegramStats'.pollCount = 0
            /\ telegramStats'.commandsProcessed = 0]_vars

\* all four counters have counted since the last restart, a failed and a
\* successful delivery among them
C33_Witness ==
    /\ pc = "loop"
    /\ telegramStats.totalMessagesSent > 0
    /\ telegramStats.totalFailedSends > 0
    /\ telegramStats.pollCount > 0
    /\ telegramStats.commandsProcessed > 0


\* the field identifiers confirmEdit compares editingField with
AppliedFields ==
    {"edit_name", "edit_ssid1", "edit_ssid2", "edit_ssid3", "edit_telegram",
     "edit_alert", "edit_familiar", "edit_vecinal"}

\* C34: while an editing session is open its editingField is one of the
\* eight identifiers confirmEdit applies, so applying a stored candidate to
\* it succeeds and cannot end in "unknown field".
C34_SessionFieldKnown ==
    editingMode =>
        /\ editingField \in AppliedFields
        /\ Len(pendingEditValue) > 0 =>
              applyEdit(config, editingField, pendingEditValue).success


C36_SessionIsOwners ==
    /\ editingMode =>
          /\ editingChatID = config.personalChatId
          /\ getChatType(config, editingChatID) = "personal"
    /\ Serving =>
          \A chat_id \in Chats, message \in AllTexts :
              LET t == handleTelegramMessage(Cur, message, chat_id, DefaultEnv)
              IN  t.editingMode => t.editingChatID = t.config.personalChatId

\* the owner has opened a session with an edit command
C36_Witness ==
    /\ editingMode /\ pc = "loop"
    /\ lastIn.op = "msg" /\ lastIn.a = Owner /\ startsWith(lastIn.b, "/edit_")
    /\ editingChatID = Owner
    /\ config.personalChatId = Owner
    /\ config.familiarChatId = Family /\ config.vecinalChatId = Neighbors


\* C37: when no editing session is open, editingField, editingChatID and
\* pendingEditValue are empty and editingStartTime is 0; a candidate value is
\* stored only while a session is open.
C37_ClosedSessionIsEmpty ==
    /\ ~editingMode =>
          /\ editingField = "" /\ editingChatID = ""
          /\ pendingEditValue = "" /\ editingStartTime = 0
    /\ pendingEditValue # "" => editingMode

\* a session that held a candidate value has been closed by its timeout
C37_Witness ==
    /\ ~editingMode /\ pc = "loop"
    /\ lastIn = In("msg", Owner, "/confirm_edit")
    /\ route = "editing"
    /\ \E i \in 1..Len(out) : out[i].text.kind = "edit_timeout"
    /\ pendingEditValue = ""


\* C38: wherever the provisioning phase is entered (setup() with a
\* configuration that is not valid, the console command ble_start) the
\* timer bleConfigStartTime is set to that moment, and the timeout of loop()
\* restarts the device no earlier than BLE_SESSION_TIMEOUT after the entry.
C38_TimerStartsAtEntry ==
    [][/\ (pc' = "loop" /\ currentState' = "BLE_CONFIG_PHASE") =>
            bleConfigStartTime' = stateSince'
       /\ (/\ lastIn'.op = "switch"
           /\ pc = "loop" /\ currentState = "BLE_CONFIG_PHASE"
           /\ pc' = "setup") =>
            now - stateSince > BLE_SESSION_TIMEOUT]_vars


\* C39: in every step totalMessagesSent grows by the number of
\* safeSendMessage calls of that step that returned true and
\* totalFailedSends by the number that used up their retries (both counted
\* from zero in setup()); nothing else, a photo capture included, changes
\* either counter.
C39_CountersMatchSends ==
    [][LET returnedTrue == Cardinality({i \in 1..Len(out') : out'[i].ok})
           exhausted == Cardinality({i \in 1..Len(out') : ~out'[i].ok})
           sentBefore == IF lastIn'.op = "setup" THEN 0
                         ELSE telegramStats.totalMessagesSent
           failedBefore == IF lastIn'.op = "setup" THEN 0
                           ELSE telegramStats.totalFailedSends
       IN  /\ telegramStats'.totalMessagesSent = sentBefore + returnedTrue
           /\ telegramStats'.totalFailedSends = failedBefore + exhausted]_vars


\* C40: the wait the rate limit hands to delay() is at least 0 and at most
\* MESSAGE_INTERVAL (1500 ms) for every lastMessageTime and every pair of
\* reads of the 32-bit clock, the second read later than the first and the
\* clock wrapped between lastMessageTime and the reads included.
C40_WaitBounded ==
    pc = "limited" =>
        ~lt32(U32(0, MESSAGE_INTERVAL), wait)


====
